---- MODULE Spec2Model ----
(***************************************************************************)
(* A model of fvdb's grid-batch metadata engine (GridBatchImpl), of the    *)
(* construction paths of GridBatch and of its device buffer                *)
(* (TorchDeviceBuffer).                                                    *)
(*                                                                         *)
(* Spec      : engine instances over shared storage handles: index with    *)
(*             lists of up to MaxLen entries, and destruction.             *)
(* QuerySpec : per-element queries, cum_enabled_voxels_at and one-entry    *)
(*             index, over every index value.                              *)
(* SyncSpec  : one-entry index, setGlobalVoxelSize, hostAccessor and      *)
(*             deviceAccessor.                                             *)
(* AccSpec   : accessors and calls of their methods over every index.      *)
(* XformSpec : coarseVoxSizeAndOrigin followed by fineVoxSizeAndOrigin.    *)
(* ApiSpec   : a GridBatch and calls of set_from_mesh, set_from_points,    *)
(*             set_from_nearest_voxels_to_points, set_from_ijk and         *)
(*             set_from_dense_grid.                                        *)
(* BufSpec   : device buffers: construction, init, setDevice, toCpu,       *)
(*             toCuda, clear, moves, destruction.                          *)
(* DataSpec  : device buffers with the contents of their regions and the   *)
(*             copies each call issues: create, writes, setDevice, a round *)
(*             trip over an accelerator, GridHandle::copy, destruction.    *)
(***************************************************************************)
EXTENDS Integers, Sequences, FiniteSets, TLC

VARIABLES
    live,      \* slots holding a live GridBatchImpl (intrusive_ptr targets)
    inst,      \* slot -> the GridBatchImpl held there
    hdl,       \* storage handle -> its shared_ptr control block and buffer
    last,      \* the last call made on the engine and how it ended
    acc,       \* the last Accessor handed out by hostAccessor() or deviceAccessor()
    buf,       \* buffer slot -> TorchDeviceBuffer fields
    balive,    \* buffer slots holding a constructed TorchDeviceBuffer
    hostMem,   \* host regions currently allocated (malloc'ed, not yet freed)
    gpuMem,    \* accelerator regions currently allocated by the caching allocator
    blast,     \* the last call made on a buffer and how it ended
    hostData,  \* host region -> what its bytes hold
    gpuData,   \* accelerator region -> what its bytes hold
    blog,      \* the copies and synchronisations the last buffer call issued
    xf,        \* a voxel size and origin, a factor, and what coarsening and
               \* subdividing by that factor made of them
    gb         \* a GridBatch: the slot of the engine instance its mImpl refers to

vars == <<live, inst, hdl, last, acc, buf, balive, hostMem, gpuMem, blast,
          hostData, gpuData, blog, xf, gb>>
gridVars == <<live, inst, hdl, last, acc>>
bufVars == <<buf, balive, hostMem, gpuMem, blast, hostData, gpuData, blog>>
xformVars == <<xf>>
apiVars == <<gb>>

(***************************************************************************)
(* Bounds                                                                  *)
(***************************************************************************)
MaxGrids == 3
MaxLen == 2
MaxInst == 2

Slots == 1..MaxInst
Handles == 1..MaxInst
\* every index from one below -MaxGrids to MaxGrids
IdxVals == (0 - MaxGrids - 1)..MaxGrids
\* the entries of the index lists: the last element (-1), every position, and
\* one past the last position of the largest batch
ListVals == (0 - 1)..MaxGrids
IdxLists == UNION {[1..n -> ListVals] : n \in 0..MaxLen}

Min(a, b) == IF a < b THEN a ELSE b
Max(a, b) == IF a > b THEN a ELSE b

(***************************************************************************)
(* nanovdb::CoordBBox: a default-constructed box is empty (min above max), *)
(* expand() takes the component-wise hull.                                 *)
(***************************************************************************)
EmptyBBox ==
    LET hi == 2147483647
        lo == (0 - 2147483647) - 1
    IN [min |-> <<hi, hi, hi>>, max |-> <<lo, lo, lo>>]

Box(lo, hi) == [min |-> <<lo, lo, lo>>, max |-> <<hi, hi, hi>>]

expand(a, b) == [min |-> [k \in 1..3 |-> Min(a.min[k], b.min[k])],
                 max |-> [k \in 1..3 |-> Max(a.max[k], b.max[k])]]

(***************************************************************************)
(* The grids a storage handle may hold: voxel count, leaf count, byte size *)
(* and bounding box of one grid of the buffer, and the voxel size the      *)
(* batch is constructed with for it.                                       *)
(***************************************************************************)
GridDescs == << [nv |-> 10, nl |-> 1, nb |-> 2, bbox |-> Box(0, 2), vs |-> 1],
               [nv |-> 5,  nl |-> 2, nb |-> 3, bbox |-> Box(5, 6), vs |-> 2],
               [nv |-> 0,  nl |-> 0, nb |-> 1, bbox |-> EmptyBBox, vs |-> 1] >>

Devices == {"cpu", "cuda"}

\* struct GridMetadata
GridMetadata(cl, cv, cb, d, vs) ==
    [mCumLeaves |-> cl, mCumVoxels |-> cv, mCumBytes |-> cb,
     mVoxelSize |-> vs,
     mNumLeaves |-> d.nl, mNumVoxels |-> d.nv, mNumBytes |-> d.nb,
     mBBox |-> d.bbox]

\* struct GridBatchMetadata with its default member initialisers
GridBatchMetadata ==
    [mTotalLeaves |-> 0, mTotalVoxels |-> 0, mMaxVoxels |-> 0,
     mMaxLeafCount |-> 0, mTotalBBox |-> EmptyBBox,
     mIsMutable |-> FALSE, mIsContiguous |-> TRUE]

\* GridBatchImpl() = default: no metadata, no device mirror, no handle
GridBatchImplDefault ==
    [mHostGridMetadata |-> <<>>,
     mDeviceGridMetadata |-> [isNull |-> TRUE, data |-> <<>>],
     mBatchMetadata |-> GridBatchMetadata, mGridHdl |-> 0,
     mLeafBatchIndices |-> <<>>, mListIndices |-> 0]

\* a handle's control block: shared_ptr use count, whether the buffer was
\* released, the buffer's device and whether the buffer is empty
NoHandle == [state |-> "unused", refs |-> 0, device |-> "cpu", isEmpty |-> TRUE]

batchSize(self) == Len(self.mHostGridMetadata)
isMutable(self) == self.mBatchMetadata.mIsMutable
isContiguous(self) == self.mBatchMetadata.mIsContiguous
totalLeaves(self) == self.mBatchMetadata.mTotalLeaves
totalVoxels(self) == self.mBatchMetadata.mTotalVoxels
device(self) == hdl[self.mGridHdl].device
isEmpty(self) == hdl[self.mGridHdl].isEmpty

RECURSIVE SumVoxels(_, _)
SumVoxels(md, n) == IF n = 0 THEN 0 ELSE SumVoxels(md, n - 1) + md[n].mNumVoxels

RECURSIVE SumLeaves(_, _)
SumLeaves(md, n) == IF n = 0 THEN 0 ELSE SumLeaves(md, n - 1) + md[n].mNumLeaves

RECURSIVE SumBytes(_, _)
SumBytes(md, n) == IF n = 0 THEN 0 ELSE SumBytes(md, n - 1) + md[n].mNumBytes

RECURSIVE SumDesc(_, _, _)
SumDesc(ds, n, fld) == IF n = 0 THEN 0 ELSE SumDesc(ds, n - 1, fld) + ds[n][fld]

RECURSIVE MaxDesc(_, _, _)
MaxDesc(ds, n, fld) == IF n = 0 THEN 0 ELSE Max(MaxDesc(ds, n - 1, fld), ds[n][fld])

RECURSIVE HullDesc(_, _)
HullDesc(ds, n) == IF n = 0 THEN EmptyBBox ELSE expand(HullDesc(ds, n - 1), ds[n].bbox)

\* count copies of value v: torch::full({count}, v)
full(count, v) == [k \in 1..count |-> v]

RECURSIVE LeafIdxOf(_, _)
LeafIdxOf(ds, n) ==
    IF n = 0 THEN <<>> ELSE LeafIdxOf(ds, n - 1) \o full(ds[n].nl, n - 1)

\* Write back the host metadata to the device if the handle is a cuda handle
syncMetadataToDeviceIfCUDA(self, dev) ==
    IF dev = "cuda"
    THEN [self EXCEPT !.mDeviceGridMetadata =
                          [isNull |-> FALSE, data |-> self.mHostGridMetadata]]
    ELSE self

\* GridBatchImpl(gridHdl, voxelSizes, voxelOrigins): one left-to-right pass
\* over the grids of the handle, accumulating the cumulative offsets
GridBatchImplFromHandle(ds, h, dev, mut, lists) ==
    syncMetadataToDeviceIfCUDA(
        [mHostGridMetadata |->
             [i \in 1..Len(ds) |->
                 GridMetadata(SumDesc(ds, i - 1, "nl"), SumDesc(ds, i - 1, "nv"),
                              SumDesc(ds, i - 1, "nb"), ds[i], ds[i].vs)],
         mDeviceGridMetadata |-> [isNull |-> TRUE, data |-> <<>>],
         mBatchMetadata |->
             [mTotalLeaves |-> SumDesc(ds, Len(ds), "nl"),
              mTotalVoxels |-> SumDesc(ds, Len(ds), "nv"),
              mMaxVoxels |-> MaxDesc(ds, Len(ds), "nv"),
              mMaxLeafCount |-> MaxDesc(ds, Len(ds), "nl"),
              mTotalBBox |-> HullDesc(ds, Len(ds)),
              mIsMutable |-> mut, mIsContiguous |-> TRUE],
         mGridHdl |-> h,
         mLeafBatchIndices |-> LeafIdxOf(ds, Len(ds)),
         mListIndices |-> lists], dev)

\* GridBatchImpl(device, isMutable): an empty batch over an empty grid handle
GridBatchImplEmpty(h, mut) ==
    [GridBatchImplDefault EXCEPT !.mGridHdl = h,
                                 !.mBatchMetadata.mIsMutable = mut]

(***************************************************************************)
(* GridBatchImpl::negativeToPositiveIndexWithRangecheck                    *)
(***************************************************************************)
\* mutant: negative indices are not counted from the end
rangecheckWithoutNegative(size, bi) ==
    IF bi >= 0 /\ bi < size THEN [err |-> "none", bi |-> bi]
    ELSE [err |-> "IndexError", bi |-> bi]

negativeToPositiveIndexWithRangecheck(size, bi) ==
    LET b == IF bi < 0 THEN bi + size ELSE bi
    IN IF b >= 0 /\ b < size THEN [err |-> "none", bi |-> b]
       ELSE [err |-> "IndexError", bi |-> b]

(***************************************************************************)
(* GridBatchImpl::indexInternal                                            *)
(***************************************************************************)
\* the locals of indexInternal before the loop
indexStart(self) ==
    [err |-> "none", ret |-> <<>>, cumVoxels |-> 0, cumLeaves |-> 0,
     maxVoxels |-> 0, maxLeafCount |-> 0, count |-> 0, totalBbox |-> EmptyBBox,
     leafBatchIdxs |-> <<>>, isContiguous |-> self.mBatchMetadata.mIsContiguous]

\* the loop body once the element m to copy is known: ret gets m with the
\* given cumulative fields, and the running values move on
indexPush(st, bi, m, cumLeaves, cumVoxels, cumBytes) ==
    [st EXCEPT
        !.isContiguous = st.isContiguous /\ (bi = st.count),
        !.ret = Append(st.ret, [m EXCEPT !.mCumLeaves = cumLeaves,
                                         !.mCumVoxels = cumVoxels,
                                         !.mCumBytes = cumBytes]),
        !.totalBbox = IF st.count = 0 THEN m.mBBox ELSE expand(st.totalBbox, m.mBBox),
        !.cumLeaves = st.cumLeaves + m.mNumLeaves,
        !.cumVoxels = st.cumVoxels + m.mNumVoxels,
        !.maxVoxels = Max(st.maxVoxels, m.mNumVoxels),
        !.maxLeafCount = Max(st.maxLeafCount, m.mNumLeaves),
        !.leafBatchIdxs = st.leafBatchIdxs \o full(m.mNumLeaves, st.count),
        !.count = st.count + 1]

\* mutant: copies the element at the loop position, not the one idx[i] names
indexStepAtLoopPosition(self, bi, st) ==
    LET m == self.mHostGridMetadata[(st.count % batchSize(self)) + 1]
    IN indexPush(st, bi, m, st.cumLeaves, st.cumVoxels, m.mCumBytes)

\* mutant: leaves the copied element's cumulative counts as they were in the source
indexStepKeepsCumulative(self, bi, st) ==
    LET m == self.mHostGridMetadata[bi + 1]
    IN indexPush(st, bi, m, m.mCumLeaves, m.mCumVoxels, m.mCumBytes)

\* mutant: also rewrites the byte offset as a running sum over the selection
indexStepRecomputesBytes(self, bi, st) ==
    LET m == self.mHostGridMetadata[bi + 1]
    IN indexPush(st, bi, m, st.cumLeaves, st.cumVoxels, SumBytes(st.ret, Len(st.ret)))

\* mutant: numbers the leaves of the copied element by its place in the source
indexStepLeavesOfSource(self, bi, st) ==
    LET m == self.mHostGridMetadata[bi + 1]
    IN [indexPush(st, bi, m, st.cumLeaves, st.cumVoxels, m.mCumBytes)
           EXCEPT !.leafBatchIdxs = st.leafBatchIdxs \o full(m.mNumLeaves, bi)]

\* mutant: the running maxima and bounding box restart at each element
indexStepKeepsLastExtent(self, bi, st) ==
    LET m == self.mHostGridMetadata[bi + 1]
    IN [indexPush(st, bi, m, st.cumLeaves, st.cumVoxels, m.mCumBytes)
           EXCEPT !.maxVoxels = m.mNumVoxels, !.maxLeafCount = m.mNumLeaves,
                  !.totalBbox = m.mBBox]

\* mutant: the copied element gets a default voxel size
indexStepDefaultTransform(self, bi, st) ==
    LET m == self.mHostGridMetadata[bi + 1]
    IN indexPush(st, bi, [m EXCEPT !.mVoxelSize = 1], st.cumLeaves, st.cumVoxels,
                 m.mCumBytes)

\* one pass of the loop body for the resolved index bi: the element is copied
\* whole and only its cumulative leaf and voxel counts are overwritten
indexStep(self, bi, st) ==
    LET m == self.mHostGridMetadata[bi + 1]
    IN indexPush(st, bi, m, st.cumLeaves, st.cumVoxels, m.mCumBytes)

RECURSIVE indexLoop(_, _, _, _)
indexLoop(self, idx, i, st) ==
    IF i > Len(idx) THEN st
    ELSE LET r == negativeToPositiveIndexWithRangecheck(batchSize(self), idx[i])
         IN IF r.err # "none" THEN [st EXCEPT !.err = r.err]
            ELSE indexLoop(self, idx, i + 1, indexStep(self, r.bi, st))

\* ret once the loop is done, given the values written to its batch metadata
indexResult(self, st, contiguous, leaves, voxels) ==
    [mHostGridMetadata |-> st.ret,
     mDeviceGridMetadata |-> [isNull |-> TRUE, data |-> <<>>],
     mBatchMetadata |->
         [mIsContiguous |-> contiguous,
          mTotalLeaves |-> leaves,
          mTotalVoxels |-> voxels,
          mMaxVoxels |-> st.maxVoxels,
          mMaxLeafCount |-> st.maxLeafCount,
          mTotalBBox |-> st.totalBbox,
          mIsMutable |-> isMutable(self)],
     mGridHdl |-> self.mGridHdl,
     mLeafBatchIndices |-> st.leafBatchIdxs,
     mListIndices |-> self.mListIndices]

\* mutant: keeps the source's totals
indexFinishKeepsTotals(self, st) ==
    indexResult(self, st, st.isContiguous /\ (st.count = batchSize(self)),
                totalLeaves(self), totalVoxels(self))

\* mutant: does not compare the number of selected elements with the batch size
indexFinishIgnoresCount(self, st) ==
    indexResult(self, st, st.isContiguous, st.cumLeaves, st.cumVoxels)

\* the batch metadata of ret once the loop is done
indexFinish(self, st) ==
    indexResult(self, st, st.isContiguous /\ (st.count = batchSize(self)),
                st.cumLeaves, st.cumVoxels)

\* the outcome of indexInternal(idx, size): "empty" asks for a fresh empty
\* batch, "view" carries the new instance over the shared handle
indexInternal(self, idx) ==
    IF Len(idx) = 0 THEN [err |-> "none", kind |-> "empty", ret |-> GridBatchImplDefault]
    ELSE LET st == indexLoop(self, idx, 1, indexStart(self))
         IN IF st.err # "none"
            THEN [err |-> st.err, kind |-> "none", ret |-> GridBatchImplDefault]
            ELSE IF self.mListIndices > 0
            THEN [err |-> "Error", kind |-> "none", ret |-> GridBatchImplDefault]
            ELSE [err |-> "none", kind |-> "view",
                  ret |-> syncMetadataToDeviceIfCUDA(indexFinish(self, st), device(self))]

(***************************************************************************)
(* Per-element queries: numLeaves, numVoxels, cumVoxels, numBytes, cumBytes *)
(***************************************************************************)
QueryFields == {"mNumLeaves", "mNumVoxels", "mCumVoxels", "mNumBytes", "mCumBytes"}

perElement(self, bi, fld) ==
    LET r == negativeToPositiveIndexWithRangecheck(batchSize(self), bi)
    IN IF r.err = "none"
       THEN [err |-> "none", val |-> self.mHostGridMetadata[r.bi + 1][fld]]
       ELSE [err |-> r.err, val |-> 0]

numLeaves(self, bi) == perElement(self, bi, "mNumLeaves").val
numVoxels(self, bi) == perElement(self, bi, "mNumVoxels").val
cumVoxels(self, bi) == perElement(self, bi, "mCumVoxels").val
numBytes(self, bi) == perElement(self, bi, "mNumBytes").val
cumBytes(self, bi) == perElement(self, bi, "mCumBytes").val
cumLeaves(self, bi) == perElement(self, bi, "mCumLeaves").val

\* checkNonEmptyGrid(): TORCH_CHECK(!isEmpty(), "Empty grid")
checkNonEmptyGrid(self) == IF isEmpty(self) THEN "Error" ELSE "none"

\* mutant: bbox without the check for an empty grid
bboxWithoutEmptyCheck(self, bi) ==
    LET r == negativeToPositiveIndexWithRangecheck(batchSize(self), bi)
    IN IF r.err # "none" THEN [err |-> r.err, val |-> 0]
       ELSE [err |-> "none", val |-> self.mHostGridMetadata[r.bi + 1].mBBox]

\* bbox(bi)
bbox(self, bi) ==
    IF checkNonEmptyGrid(self) # "none"
    THEN [err |-> checkNonEmptyGrid(self), val |-> 0]
    ELSE LET r == negativeToPositiveIndexWithRangecheck(batchSize(self), bi)
         IN IF r.err # "none" THEN [err |-> r.err, val |-> 0]
            ELSE [err |-> "none", val |-> self.mHostGridMetadata[r.bi + 1].mBBox]

\* dualBbox(bi): the range check, then bbox(bi) with one more voxel on the
\* upper corner
dualBbox(self, bi) ==
    LET r == negativeToPositiveIndexWithRangecheck(batchSize(self), bi)
    IN IF r.err # "none" THEN [err |-> r.err, val |-> 0]
       ELSE LET b == bbox(self, r.bi)
            IN IF b.err # "none" THEN b
               ELSE [err |-> "none",
                     val |-> [b.val EXCEPT !.max = [k \in 1..3 |-> @[k] + 1]]]

\* the two transforms setTransform derives from a voxel size (the origin is
\* the world origin): world -> grid scales by 1/size, and the dual one
\* shifts by half a voxel
primalTransformOf(md) == [size |-> md.mVoxelSize, origin |-> 0, halfShift |-> 0]
dualTransformOf(md) == [size |-> md.mVoxelSize, origin |-> 0, halfShift |-> 1]

\* GridMetadata::voxelOrigin(): mPrimalTransform.applyInv(0, 0, 0)
voxelOriginOf(md) == primalTransformOf(md).origin

\* voxelSize(bi), voxelOrigin(bi), primalTransform(bi), dualTransform(bi)
perElementDerived(self, bi, q) ==
    LET r == negativeToPositiveIndexWithRangecheck(batchSize(self), bi)
        md == self.mHostGridMetadata[r.bi + 1]
    IN IF r.err # "none" THEN [err |-> r.err, val |-> 0]
       ELSE [err |-> "none",
             val |-> IF q = "voxelSize" THEN md.mVoxelSize
                     ELSE IF q = "voxelOrigin" THEN voxelOriginOf(md)
                     ELSE IF q = "primalTransform" THEN primalTransformOf(md)
                     ELSE dualTransformOf(md)]

ElementQueries == {"bbox", "dualBbox", "voxelSize", "voxelOrigin",
                   "primalTransform", "dualTransform"}

elementQuery(self, bi, q) ==
    IF q = "bbox" THEN bbox(self, bi)
    ELSE IF q = "dualBbox" THEN dualBbox(self, bi)
    ELSE perElementDerived(self, bi, q)

(***************************************************************************)
(* GridBatchImpl::hostAccessor and GridBatchImpl::deviceAccessor           *)
(***************************************************************************)
\* a default Accessor: mGridPtr 0 is the null grid pointer
NoAccessor == [valid |-> FALSE, mMetadata |-> <<>>, mGridPtr |-> 0,
               mLeafBatchIndices |-> <<>>, mTotalVoxels |-> 0,
               mTotalLeaves |-> 0, mMaxVoxels |-> 0, mMaxLeafCount |-> 0,
               mGridCount |-> 0]

\* mGridHdl->grid<GridType>(): the grid in host memory, null when the buffer
\* has no host data
hostGrid(self) ==
    IF ~isEmpty(self) /\ device(self) = "cpu" THEN self.mGridHdl ELSE 0

\* mGridHdl->deviceGrid<GridType>(): the grid in accelerator memory, null
\* when the buffer has no accelerator data
deviceGrid(self) ==
    IF ~isEmpty(self) /\ device(self) = "cuda" THEN self.mGridHdl ELSE 0

\* the Accessor both functions fill in, with its metadata and grid pointers
accessorOver(self, metadata, gridPtr) ==
    [valid |-> TRUE,
     mMetadata |-> metadata,
     mGridPtr |-> gridPtr,
     mLeafBatchIndices |-> self.mLeafBatchIndices,
     mTotalVoxels |-> self.mBatchMetadata.mTotalVoxels,
     mTotalLeaves |-> self.mBatchMetadata.mTotalLeaves,
     mMaxVoxels |-> self.mBatchMetadata.mMaxVoxels,
     mMaxLeafCount |-> self.mBatchMetadata.mMaxLeafCount,
     mGridCount |-> Len(self.mHostGridMetadata)]

\* a TORCH_CHECK of an accessor function failed with message msg
AccessorFails(msg) == [err |-> "Error", msg |-> msg, ret |-> NoAccessor]

\* mutant: the host grid pointer is not checked
hostAccessorUnchecked(self) ==
    IF isEmpty(self)
    THEN AccessorFails("Cannot access empty grid")
    ELSE [err |-> "none", msg |-> "",
          ret |-> accessorOver(self, self.mHostGridMetadata, hostGrid(self))]

hostAccessor(self) ==
    IF isEmpty(self) THEN AccessorFails("Cannot access empty grid")
    ELSE IF hostGrid(self) = 0 THEN AccessorFails("Failed to get host grid pointer")
    ELSE [err |-> "none", msg |-> "",
          ret |-> accessorOver(self, self.mHostGridMetadata, hostGrid(self))]

deviceAccessor(self) ==
    IF isEmpty(self) THEN AccessorFails("Cannot access empty grid")
    ELSE IF device(self) # "cuda"
    THEN AccessorFails("Cannot access device accessor on non-CUDA device")
    ELSE IF deviceGrid(self) = 0 THEN AccessorFails("Failed to get device grid pointer")
    ELSE [err |-> "none", msg |-> "",
          ret |-> accessorOver(self, self.mDeviceGridMetadata.data, deviceGrid(self))]

(***************************************************************************)
(* fineVoxSizeAndOrigin and coarseVoxSizeAndOrigin: the voxel size and     *)
(* origin of a subdivided and of a coarsened grid.  A coordinate is an     *)
(* exact fraction <<numerator, denominator>> in lowest terms; the rounding *)
(* of double arithmetic is not represented.                                *)
(***************************************************************************)
MaxFactor == 3

Abs(x) == IF x < 0 THEN 0 - x ELSE x

RECURSIVE GCD(_, _)
GCD(a, b) == IF b = 0 THEN a ELSE GCD(b, a % b)

\* the fraction n/d (d > 0) in lowest terms
Frac(n, d) ==
    LET g == GCD(Abs(n), d)
    IN IF n = 0 THEN <<0, 1>> ELSE <<n \div g, d \div g>>

FracAdd(x, y) == Frac(x[1] * y[2] + y[1] * x[2], x[2] * y[2])
FracSub(x, y) == Frac(x[1] * y[2] - y[1] * x[2], x[2] * y[2])
FracMul(x, y) == Frac(x[1] * y[1], x[2] * y[2])
\* x / f for an integer f > 0
FracDivInt(x, f) == Frac(x[1], x[2] * f)
\* nanovdb::Coord::asVec3d, one component
asDouble(i) == <<i, 1>>
Half == <<1, 2>>

Axes == 1..3

\* the factors a caller may pass on one axis, zero among them
Factors == 0..MaxFactor
\* voxel sizes (positive) and origins on one axis
VoxelSizeVals == {<<1, 1>>, <<3, 2>>}
VoxelOriginVals == {<<0, 1>>, <<0 - 1, 2>>}

NoSizeAndOrigin == [w |-> <<>>, tx |-> <<>>]

\* mutant: coarsening keeps the origin of the fine grid
coarseKeepsOrigin(voxelSize, voxelOrigin, branchingFactor) ==
    IF ~(branchingFactor[1] > 0 /\ branchingFactor[2] > 0 /\ branchingFactor[3] > 0)
    THEN [err |-> "Error", ret |-> NoSizeAndOrigin]
    ELSE [err |-> "none",
          ret |-> [w |-> [k \in Axes |-> FracMul(asDouble(branchingFactor[k]), voxelSize[k])],
                   tx |-> voxelOrigin]]

\* mutant: coarsening shifts the origin by (f - 1)/2 coarse voxels
coarseShiftsByCoarseVoxels(voxelSize, voxelOrigin, branchingFactor) ==
    IF ~(branchingFactor[1] > 0 /\ branchingFactor[2] > 0 /\ branchingFactor[3] > 0)
    THEN [err |-> "Error", ret |-> NoSizeAndOrigin]
    ELSE LET w == [k \in Axes |-> FracMul(asDouble(branchingFactor[k]), voxelSize[k])]
             tx == [k \in Axes |->
                       FracAdd(FracMul(FracMul(FracSub(asDouble(branchingFactor[k]),
                                                       asDouble(1)), w[k]), Half),
                               voxelOrigin[k])]
         IN [err |-> "none", ret |-> [w |-> w, tx |-> tx]]

\* fineVoxSizeAndOrigin(bi, subdivFactor), with voxelSize(bi) and
\* voxelOrigin(bi) as its first two arguments
fineVoxSizeAndOrigin(voxelSize, voxelOrigin, subdivFactor) ==
    IF ~(subdivFactor[1] > 0 /\ subdivFactor[2] > 0 /\ subdivFactor[3] > 0)
    THEN [err |-> "Error", ret |-> NoSizeAndOrigin]
    ELSE LET w == [k \in Axes |-> FracDivInt(voxelSize[k], subdivFactor[k])]
             tx == [k \in Axes |->
                       FracSub(voxelOrigin[k],
                               FracMul(FracMul(FracSub(asDouble(subdivFactor[k]),
                                                       asDouble(1)), w[k]), Half))]
         IN [err |-> "none", ret |-> [w |-> w, tx |-> tx]]

\* coarseVoxSizeAndOrigin(bi, branchingFactor), with voxelSize(bi) and
\* voxelOrigin(bi) as its first two arguments
coarseVoxSizeAndOrigin(voxelSize, voxelOrigin, branchingFactor) ==
    IF ~(branchingFactor[1] > 0 /\ branchingFactor[2] > 0 /\ branchingFactor[3] > 0)
    THEN [err |-> "Error", ret |-> NoSizeAndOrigin]
    ELSE LET w == [k \in Axes |-> FracMul(asDouble(branchingFactor[k]), voxelSize[k])]
             tx == [k \in Axes |->
                       FracAdd(FracMul(FracMul(FracSub(asDouble(branchingFactor[k]),
                                                       asDouble(1)), voxelSize[k]), Half),
                               voxelOrigin[k])]
         IN [err |-> "none", ret |-> [w |-> w, tx |-> tx]]

\* nothing has been asked about a voxel size and origin
NoTransform ==
    [step |-> "idle", voxelSize |-> <<>>, voxelOrigin |-> <<>>, factor |-> <<>>,
     err |-> "none", coarse |-> NoSizeAndOrigin, fine |-> NoSizeAndOrigin]

XformIdle == xf = NoTransform

\* a grid's voxel size and origin and the factor it is to be coarsened by
XformInput ==
    \E vs \in [Axes -> VoxelSizeVals], vo \in [Axes -> VoxelOriginVals],
       f \in [Axes -> Factors] :
        xf = [NoTransform EXCEPT !.step = "input", !.voxelSize = vs,
                                 !.voxelOrigin = vo, !.factor = f]

\* coarseVoxSizeAndOrigin is called on the grid with the factor
Coarsen ==
    /\ xf.step = "input"
    /\ LET r == coarseVoxSizeAndOrigin(xf.voxelSize, xf.voxelOrigin, xf.factor)
       IN xf' = [xf EXCEPT !.step = IF r.err = "none" THEN "coarse" ELSE "failed",
                           !.err = r.err, !.coarse = r.ret]

\* fineVoxSizeAndOrigin is called on the coarsened grid with the same factor
Subdivide ==
    /\ xf.step = "coarse"
    /\ LET r == fineVoxSizeAndOrigin(xf.coarse.w, xf.coarse.tx, xf.factor)
       IN xf' = [xf EXCEPT !.step = IF r.err = "none" THEN "fine" ELSE "failed",
                           !.err = r.err, !.fine = r.ret]

(***************************************************************************)
(* The methods of GridBatchImpl::Accessor                                  *)
(***************************************************************************)
\* what an out-of-range element access does: the build has assert enabled
\* and it fires, or the access reads whatever lies there, or it faults
AccessOutcomes == {"assert", "garbage", "fault"}

\* Accessor::negativeToPositiveIndexWithRangecheck: the range is checked by
\* an assert, which is compiled out when NDEBUG is defined
accessorIndex(a, bi, ub) ==
    LET b == IF bi < 0 THEN bi + a.mGridCount ELSE bi
    IN IF b >= 0 /\ b < a.mGridCount THEN [err |-> "none", bi |-> b]
       ELSE IF ub = "assert" THEN [err |-> "AssertionFailed", bi |-> b]
       ELSE [err |-> "unchecked", bi |-> b]

\* reading element i (from 0) of an array without a check: outside the
\* array the read faults, or returns whatever lies there ("OutOfBoundsRead"
\* marks that the caller got such a value, no exception is raised)
uncheckedRead(arr, i, ub) ==
    IF i >= 0 /\ i < Len(arr) THEN [err |-> "none", val |-> arr[i + 1]]
    ELSE IF ub = "fault" THEN [err |-> "Fault", val |-> 0]
    ELSE [err |-> "OutOfBoundsRead", val |-> 0]

AccessorMethods == {"grid", "bbox", "dualBbox", "voxelOffset", "leafOffset",
                    "primalTransform", "dualTransform"}

\* what method reads out of the metadata of one element
accessorField(md, method) ==
    IF method = "grid" THEN md.mCumBytes
    ELSE IF method = "bbox" THEN md.mBBox
    ELSE IF method = "dualBbox"
    THEN [md.mBBox EXCEPT !.max = [k \in 1..3 |-> @[k] + 1]]
    ELSE IF method = "voxelOffset" THEN md.mCumVoxels
    ELSE IF method = "leafOffset" THEN md.mCumLeaves
    ELSE IF method = "primalTransform" THEN primalTransformOf(md)
    ELSE dualTransformOf(md)

\* grid(bi), bbox(bi), dualBbox(bi), voxelOffset(bi), leafOffset(bi),
\* primalTransform(bi), dualTransform(bi)
accessorMethod(a, method, bi, ub) ==
    LET r == accessorIndex(a, bi, ub)
    IN IF r.err = "AssertionFailed" THEN [err |-> r.err, val |-> 0]
       ELSE LET md == uncheckedRead(a.mMetadata, r.bi, ub)
            IN IF md.err # "none" THEN md
               ELSE [err |-> "none", val |-> accessorField(md.val, method)]

\* leafBatchIndex(leaf_idx): mLeafBatchIndices[leaf_idx]
leafBatchIndex(a, leaf_idx, ub) == uncheckedRead(a.mLeafBatchIndices, leaf_idx, ub)

(***************************************************************************)
(* GridBatchImpl::setGlobalVoxelSize(voxelSize, syncToDevice)              *)
(***************************************************************************)
VoxelSizes == {1, 2}

setGlobalVoxelSize(self, voxelSize, syncToDevice) ==
    LET upd == [self EXCEPT !.mHostGridMetadata =
                    [i \in 1..Len(self.mHostGridMetadata) |->
                        [self.mHostGridMetadata[i] EXCEPT !.mVoxelSize = voxelSize]]]
    IN IF syncToDevice THEN syncMetadataToDeviceIfCUDA(upd, device(self)) ELSE upd

(***************************************************************************)
(* The shared_ptr to the grid handle: copy and release                     *)
(***************************************************************************)
\* mutant: the handle is taken without a new owner being counted
copyGridHdlUncounted(hs, h) == hs

\* ret->mGridHdl = mGridHdl
copyGridHdl(hs, h) == [hs EXCEPT ![h].refs = @ + 1]

\* the last owner going away releases the buffer
releaseGridHdl(hs, h) ==
    IF hs[h].refs = 1 THEN [hs EXCEPT ![h].refs = 0, ![h].state = "freed"]
    ELSE [hs EXCEPT ![h].refs = @ - 1]

\* a handle made by buildEmptyGrid for a new empty batch
newEmptyHdl(hs, h, dev) ==
    [hs EXCEPT ![h] = [state |-> "live", refs |-> 1, device |-> dev, isEmpty |-> TRUE]]

FreeSlot == CHOOSE x \in Slots \ live : \A y \in Slots \ live : x <= y
FreeHdl == CHOOSE h \in Handles : hdl[h].state # "live"
                                  /\ \A g \in Handles : hdl[g].state # "live" => h <= g

Call(op, s, idx, res, err, val) ==
    [op |-> op, src |-> s, idx |-> idx, res |-> res, err |-> err, val |-> val]

(***************************************************************************)
(* Actions of the engine                                                   *)
(***************************************************************************)
\* mutant: a failing index leaves the instance it was building behind
IndexLeavesPartial(s, idx) ==
    /\ s \in live
    /\ LET r == indexInternal(inst[s], idx)
       IN IF r.err # "none"
          THEN /\ UNCHANGED <<live, inst>>
               /\ hdl' = copyGridHdl(hdl, inst[s].mGridHdl)
               /\ last' = Call("index", s, idx, 0, r.err, 0)
          ELSE /\ Slots \ live # {}
               /\ live' = live \cup {FreeSlot}
               /\ IF r.kind = "view"
                  THEN /\ inst' = [inst EXCEPT ![FreeSlot] = r.ret]
                       /\ hdl' = copyGridHdl(hdl, inst[s].mGridHdl)
                  ELSE /\ inst' = [inst EXCEPT ![FreeSlot] =
                                      GridBatchImplEmpty(FreeHdl, isMutable(inst[s]))]
                       /\ hdl' = newEmptyHdl(hdl, FreeHdl, device(inst[s]))
               /\ last' = Call("index", s, idx, FreeSlot, "none", 0)
    /\ UNCHANGED acc

\* index(indices): a new instance over the same handle, or a failure
Index(s, idx) ==
    /\ s \in live
    /\ LET r == indexInternal(inst[s], idx)
       IN IF r.err # "none"
          THEN /\ UNCHANGED <<live, inst, hdl>>
               /\ last' = Call("index", s, idx, 0, r.err, 0)
          ELSE /\ Slots \ live # {}
               /\ live' = live \cup {FreeSlot}
               /\ IF r.kind = "view"
                  THEN /\ inst' = [inst EXCEPT ![FreeSlot] = r.ret]
                       /\ hdl' = copyGridHdl(hdl, inst[s].mGridHdl)
                  ELSE /\ inst' = [inst EXCEPT ![FreeSlot] =
                                      GridBatchImplEmpty(FreeHdl, isMutable(inst[s]))]
                       /\ hdl' = newEmptyHdl(hdl, FreeHdl, device(inst[s]))
               /\ last' = Call("index", s, idx, FreeSlot, "none", 0)
    /\ UNCHANGED acc

\* a per-element query
Query(s, bi, fld) ==
    /\ s \in live
    /\ LET r == perElement(inst[s], bi, fld)
       IN last' = Call(fld, s, <<bi>>, 0, r.err, r.val)
    /\ UNCHANGED <<live, inst, hdl, acc>>

\* bbox(bi), dualBbox(bi), voxelSize(bi), voxelOrigin(bi), primalTransform(bi),
\* dualTransform(bi)
QueryElement(s, bi, q) ==
    /\ s \in live
    /\ LET r == elementQuery(inst[s], bi, q)
       IN last' = Call(q, s, <<bi>>, 0, r.err, r.val)
    /\ UNCHANGED <<live, inst, hdl, acc>>

\* GridBatch::num_voxels_at(bi): the engine's numVoxels(bi)
num_voxels_at(self, bi) == perElement(self, bi, "mNumVoxels")

\* dispatchCountEnabledVoxels(*impl(), bi) on a mutable batch of which off
\* voxels of each grid that has voxels were disabled
dispatchCountEnabledVoxels(self, bi, off) ==
    LET r == num_voxels_at(self, bi)
    IN IF r.err # "none" THEN r ELSE [r EXCEPT !.val = Max(r.val - off, 0)]

\* GridBatch::num_enabled_voxels_at(bi)
num_enabled_voxels_at(self, bi, off) ==
    IF ~isMutable(self) THEN num_voxels_at(self, bi)
    ELSE dispatchCountEnabledVoxels(self, bi, off)

\* the loop of cum_enabled_voxels_at from position b on, nCum counted so far
RECURSIVE cumEnabledLoop(_, _, _, _, _)
cumEnabledLoop(self, bi, off, b, nCum) ==
    IF ~(b < bi) THEN [err |-> "none", val |-> nCum]
    ELSE LET r == num_enabled_voxels_at(self, b, off)
         IN IF r.err # "none" THEN r
            ELSE cumEnabledLoop(self, bi, off, b + 1, nCum + r.val)

\* GridBatch::cum_enabled_voxels_at(bi)
cum_enabled_voxels_at(self, bi, off) == cumEnabledLoop(self, bi, off, 0, 0)

\* cum_enabled_voxels_at(bi) is called on a GridBatch over instance s
CumEnabledVoxelsAt(s, bi, off) ==
    /\ s \in live
    /\ LET r == cum_enabled_voxels_at(inst[s], bi, off)
       IN last' = Call("cum_enabled_voxels_at", s, <<bi>>, 0, r.err, r.val)
                      @@ [off |-> off]
    /\ UNCHANGED <<live, inst, hdl, acc>>

\* setGlobalVoxelSize(voxelSize, syncToDevice)
SetGlobalVoxelSize(s, voxelSize, syncToDevice) ==
    /\ s \in live
    /\ inst' = [inst EXCEPT ![s] = setGlobalVoxelSize(inst[s], voxelSize, syncToDevice)]
    /\ last' = Call("setGlobalVoxelSize", s, <<>>, 0, "none", 0)
    /\ UNCHANGED <<live, hdl, acc>>

\* deviceAccessor()
DeviceAccessor(s) ==
    /\ s \in live
    /\ LET r == deviceAccessor(inst[s])
       IN /\ acc' = r.ret
          /\ last' = Call("deviceAccessor", s, <<>>, 0, r.err, r.msg)
    /\ UNCHANGED <<live, inst, hdl>>

\* a method of the Accessor last handed out is called with index bi
AccessorCall(method, bi, ub) ==
    /\ acc.valid
    /\ LET r == IF method = "leafBatchIndex" THEN leafBatchIndex(acc, bi, ub)
                ELSE accessorMethod(acc, method, bi, ub)
       IN last' = Call(method, 0, <<bi>>, 0, r.err, r.val)
    /\ UNCHANGED <<live, inst, hdl, acc>>

\* hostAccessor()
HostAccessor(s) ==
    /\ s \in live
    /\ LET r == hostAccessor(inst[s])
       IN /\ acc' = r.ret
          /\ last' = Call("hostAccessor", s, <<>>, 0, r.err, r.msg)
    /\ UNCHANGED <<live, inst, hdl>>

\* the last intrusive_ptr to an instance goes away: ~GridBatchImpl
Destroy(s) ==
    /\ s \in live
    /\ live' = live \ {s}
    /\ inst' = [inst EXCEPT ![s] = GridBatchImplDefault]
    /\ hdl' = releaseGridHdl(hdl, inst[s].mGridHdl)
    /\ last' = Call("destroy", s, <<>>, 0, "none", 0)
    /\ UNCHANGED acc

(***************************************************************************)
(* TorchDeviceBuffer: a raw memory region owned on the host or on one      *)
(* accelerator device.                                                     *)
(***************************************************************************)
MaxBuf == 2
MaxRegion == 2
MaxSize == 2
MaxByte == 1

BufSlots == 1..MaxBuf
Regions == 1..MaxRegion
BufSizes == 0..MaxSize
\* what a region holds, as one value: 0 is "every byte is zero"
Bytes == 0..MaxByte
nullptr == 0

\* torch::Device: a type and an index (-1: no index)
kCPU == [type |-> "cpu", index |-> 0 - 1]
kCUDA(i) == [type |-> "cuda", index |-> i]
is_cpu(d) == d.type = "cpu"
is_cuda(d) == d.type = "cuda"
has_index(d) == d.index # 0 - 1

\* the devices a caller may name: the host, two accelerators, and an
\* accelerator with no index
TargetDevices == {kCPU, kCUDA(0), kCUDA(1), kCUDA(0 - 1)}

\* the devices a guide buffer may be on
GuideDevices == {kCPU, kCUDA(0), kCUDA(1)}

\* what releasing or reading an accelerator region the allocator does not
\* hold does: the allocator rejects the pointer, or the call goes through
DanglingOutcomes == {"throws", "returns"}

\* the members of a TorchDeviceBuffer with nothing in it
TorchDeviceBufferEmpty(dev) ==
    [mSize |-> 0, mCpuData |-> nullptr, mGpuData |-> nullptr, mDevice |-> dev]

\* one buffer b together with the two heaps and what their regions hold,
\* while a member function runs; stage is what a temporary host staging
\* buffer holds, log the copies and synchronisations issued so far, inflight
\* the regions read by copies issued and not yet synchronised, rel the
\* regions released so far, err the exception that ended the function, if any
Mach(b) ==
    [b |-> buf[b], host |-> hostMem, gpu |-> gpuMem,
     hostData |-> hostData, gpuData |-> gpuData,
     stage |-> 0, log |-> <<>>, inflight |-> {}, rel |-> <<>>, err |-> "none"]

Throw(m) == [m EXCEPT !.err = "Error"]

\* the lowest region not in use: the allocators hand released addresses out again
NewRegion(used) == CHOOSE r \in Regions \ used : \A q \in Regions \ used : r <= q

\* malloc(size) into mCpuData: the region holds whatever it held before
malloc(m) ==
    LET p == NewRegion(m.host)
    IN [m EXCEPT !.host = @ \cup {p}, !.b.mCpuData = p]

\* region p of a heap ("host" or "gpu") is handed back: held tells whether
\* the allocator held it, busy whether a copy reading it was still in flight
Release(m, heap, p, held) ==
    [heap |-> heap, held |-> held,
     busy |-> \E c \in m.inflight : c.heap = heap /\ c.p = p]

\* free(p); x is the machine state m, evaluated once
free(m, p) ==
    CHOOSE r \in {[x EXCEPT !.host = @ \ {p},
                            !.rel = Append(@, Release(x, "host", p, p \in x.host))] :
                      x \in {m}} : TRUE

\* the end of the scope of std::unique_ptr<uint8_t[]> buf: the staging
\* buffer (host pointer 0 of the model) is deleted
deleteStaging(m) ==
    CHOOSE r \in {[x EXCEPT !.rel = Append(@, Release(x, "host", nullptr, TRUE))] :
                      x \in {m}} : TRUE

\* CUDACachingAllocator::raw_alloc_with_stream(size, stream) into mGpuData:
\* the region holds whatever it held before
raw_alloc_with_stream(m) ==
    LET p == NewRegion(m.gpu)
    IN [m EXCEPT !.gpu = @ \cup {p}, !.b.mGpuData = p]

\* CUDACachingAllocator::raw_delete(p)
raw_delete(m, p, dd) ==
    CHOOSE r \in {IF p \in x.gpu
                  THEN [x EXCEPT !.gpu = @ \ {p},
                                 !.rel = Append(@, Release(x, "gpu", p, TRUE))]
                  ELSE [x EXCEPT !.rel = Append(@, Release(x, "gpu", p, FALSE)),
                                 !.err = IF dd = "throws" THEN "Error" ELSE @] :
                      x \in {m}} : TRUE

MemcpyEvent(kind, stream) == [ev |-> "memcpy", kind |-> kind, stream |-> stream]
SyncEvent(stream) == [ev |-> "sync", stream |-> stream]

\* what a host pointer reads: region 0 stands for the staging buffer
HostByte(m, p) == IF p \in Regions THEN m.hostData[p] ELSE m.stage

\* m with v stored through a host pointer
HostStore(m, p, v) ==
    IF p \in Regions THEN [m EXCEPT !.hostData[p] = v] ELSE [m EXCEPT !.stage = v]

\* cudaCheck(cudaMemcpyAsync(dst, src, size, kind, stream)): the accelerator
\* side of the copy may be a region the allocator no longer holds
cudaMemcpyAsync(m, dst, src, kind, stream, dd) ==
    LET dev == IF kind = "HostToDevice" THEN {dst}
               ELSE IF kind = "DeviceToHost" THEN {src}
               ELSE {dst, src}
        reads == [heap |-> IF kind = "HostToDevice" THEN "host" ELSE "gpu",
                  p |-> src, stream |-> stream]
        logged(x) == [x EXCEPT !.log = Append(@, MemcpyEvent(kind, stream)),
                               !.inflight = @ \cup {reads}]
    IN CHOOSE r \in
           {IF ~(dev \subseteq Regions) THEN Throw(x)
            ELSE IF ~(dev \subseteq x.gpu) /\ dd = "throws" THEN Throw(x)
            ELSE IF kind = "HostToDevice"
            THEN [logged(x) EXCEPT !.gpuData[dst] = HostByte(x, src)]
            ELSE IF kind = "DeviceToHost"
            THEN HostStore(logged(x), dst, x.gpuData[src])
            ELSE [logged(x) EXCEPT !.gpuData[dst] = x.gpuData[src]] :
                x \in {m}} : TRUE

\* cudaCheck(cudaStreamSynchronize(stream))
cudaStreamSynchronize(m, stream) ==
    [m EXCEPT !.log = Append(@, SyncEvent(stream)),
              !.inflight = {c \in @ : c.stream # stream}]

\* std::memcpy(dst, src, size) between two host regions
memcpy(m, dst, src) ==
    [HostStore(m, dst, HostByte(m, src)) EXCEPT
        !.log = Append(@, MemcpyEvent("HostToHost", 0 - 1))]

\* TorchDeviceBuffer::clear
clear(m, dd) ==
    LET m1 == IF m.b.mGpuData # nullptr THEN raw_delete(m, m.b.mGpuData, dd) ELSE m
    IN IF m1.err # "none" THEN m1
       ELSE LET m2 == IF m1.b.mCpuData # nullptr THEN free(m1, m1.b.mCpuData) ELSE m1
            IN [m2 EXCEPT !.b.mCpuData = nullptr, !.b.mGpuData = nullptr, !.b.mSize = 0]

\* TorchDeviceBuffer::init(size, data, host); a data pointer handed in is a
\* region the caller allocated for the buffer to own
init(m, size, data, host, dd) ==
    IF ~((host /\ is_cpu(m.b.mDevice)) \/ (~host /\ is_cuda(m.b.mDevice)))
    THEN Throw(m)
    ELSE IF size = m.b.mSize THEN m
    ELSE LET c == clear(m, dd)
         IN IF c.err # "none" THEN c
            ELSE IF size = 0 THEN c
            ELSE LET s == [c EXCEPT !.b.mSize = size]
                 IN IF host THEN malloc(s) ELSE raw_alloc_with_stream(s)

\* TorchDeviceBuffer::TorchDeviceBuffer(size, data, host, deviceIndex)
TorchDeviceBuffer(m, size, data, host, deviceIndex) ==
    IF ~(host \/ deviceIndex >= 0) THEN Throw(m)
    ELSE LET dev == IF host THEN kCPU ELSE kCUDA(deviceIndex)
         IN init([m EXCEPT !.b = TorchDeviceBufferEmpty(dev)], size, data, host, "throws")

\* no prototype buffer given to create
NoProto == [type |-> "none", index |-> 0 - 1]

\* TorchDeviceBuffer::create(size, proto, host): proto is the device of the
\* prototype buffer
create(m, size, proto, host) ==
    IF proto # NoProto /\ ~((host /\ is_cpu(proto)) \/ (~host /\ is_cuda(proto)))
    THEN Throw(m)
    ELSE LET deviceId == IF proto # NoProto THEN proto.index ELSE 0 - 1
         IN TorchDeviceBuffer(m, size, FALSE, host, IF host THEN 0 - 1 ELSE deviceId)

\* TorchDeviceBuffer::copyDeviceToHostAndFreeDevice: the accelerator region
\* is released and mGpuData keeps pointing at it
copyDeviceToHostAndFreeDevice(m, stream, blocking, dd) ==
    IF m.b.mGpuData = nullptr THEN Throw(m)
    ELSE LET m1 == IF m.b.mCpuData = nullptr THEN malloc(m) ELSE m
             m2 == cudaMemcpyAsync(m1, m1.b.mCpuData, m1.b.mGpuData,
                                   "DeviceToHost", stream, dd)
             m3 == IF blocking THEN cudaStreamSynchronize(m2, stream) ELSE m2
         IN IF m2.err # "none" THEN m2
            ELSE raw_delete(m3, m3.b.mGpuData, dd)

\* TorchDeviceBuffer::copyHostToDeviceAndFreeHost
copyHostToDeviceAndFreeHost(m, stream, blocking, dd) ==
    IF m.b.mCpuData = nullptr THEN Throw(m)
    ELSE LET m1 == IF m.b.mGpuData = nullptr THEN raw_alloc_with_stream(m) ELSE m
             m2 == cudaMemcpyAsync(m1, m1.b.mGpuData, m1.b.mCpuData,
                                   "HostToDevice", stream, dd)
             m3 == IF blocking THEN cudaStreamSynchronize(m2, stream) ELSE m2
         IN IF m2.err # "none" THEN m2
            ELSE [free(m3, m3.b.mCpuData) EXCEPT !.b.mCpuData = nullptr]

\* TorchDeviceBuffer::toCpu
toCpu(m, blocking, dd) ==
    IF m.b.mGpuData = nullptr /\ m.b.mCpuData = nullptr
    THEN [m EXCEPT !.b.mDevice = kCPU]
    ELSE LET m1 == IF is_cuda(m.b.mDevice)
                   THEN copyDeviceToHostAndFreeDevice(m, m.b.mDevice.index, blocking, dd)
                   ELSE m
         IN IF m1.err # "none" THEN m1
            ELSE LET m2 == IF m1.b.mGpuData # nullptr
                           THEN raw_delete(m1, m1.b.mGpuData, dd)
                           ELSE m1
                 IN IF m2.err # "none" THEN m2
                    ELSE [m2 EXCEPT !.b.mGpuData = nullptr, !.b.mDevice = kCPU]

\* mutant: CUDA -> CUDA across devices by one direct device-to-device copy
toCudaPeerCopy(m, toDevice, blocking, dd) ==
    LET old == m.b.mGpuData
        m1 == raw_alloc_with_stream(m)
        m2 == cudaMemcpyAsync(m1, m1.b.mGpuData, old, "DeviceToDevice",
                              toDevice.index, dd)
    IN IF m2.err # "none" THEN m2
       ELSE [raw_delete(m2, old, dd) EXCEPT !.b.mDevice = toDevice]

\* toCuda, CUDA -> CUDA across different devices: down to a temporary host
\* buffer on the source device's stream, up from it on the target's
toCudaAcrossDevices(m, toDevice, blocking, dd) ==
    LET m1 == cudaMemcpyAsync(m, nullptr, m.b.mGpuData, "DeviceToHost",
                              m.b.mDevice.index, dd)
    IN IF m1.err # "none" THEN m1
       ELSE LET m2 == raw_delete(cudaStreamSynchronize(m1, m.b.mDevice.index),
                                 m1.b.mGpuData, dd)
            IN IF m2.err # "none" THEN m2
               ELSE LET m3 == raw_alloc_with_stream(m2)
                        m4 == cudaMemcpyAsync(m3, m3.b.mGpuData, nullptr,
                                              "HostToDevice", toDevice.index, dd)
                    IN IF m4.err # "none" THEN m4
                       ELSE [deleteStaging(m4) EXCEPT !.b.mDevice = toDevice]

\* TorchDeviceBuffer::toCuda
toCuda(m, toDevice, blocking, dd) ==
    IF ~is_cuda(toDevice) THEN Throw(m)
    ELSE IF ~has_index(toDevice) THEN Throw(m)
    ELSE IF m.b.mGpuData = nullptr /\ m.b.mCpuData = nullptr
    THEN [m EXCEPT !.b.mDevice = toDevice]
    ELSE IF toDevice = m.b.mDevice THEN m
    ELSE IF is_cuda(m.b.mDevice)
    THEN toCudaAcrossDevices(m, toDevice, blocking, dd)
    ELSE IF is_cpu(m.b.mDevice)
    THEN LET m1 == copyHostToDeviceAndFreeHost(m, toDevice.index, blocking, dd)
         IN IF m1.err # "none" THEN m1
            ELSE [m1 EXCEPT !.b.mDevice = toDevice]
    ELSE Throw(m)

\* mutant: an empty buffer keeps the device it had
setDeviceKeepsDeviceOfEmpty(m, toDevice, blocking, dd) ==
    IF toDevice = m.b.mDevice THEN m
    ELSE IF m.b.mCpuData = nullptr /\ m.b.mGpuData = nullptr
    THEN IF is_cuda(toDevice) /\ ~has_index(toDevice) THEN Throw(m) ELSE m
    ELSE IF is_cpu(toDevice) THEN toCpu(m, blocking, dd)
    ELSE IF is_cuda(toDevice) THEN toCuda(m, toDevice, blocking, dd)
    ELSE Throw(m)

\* TorchDeviceBuffer::setDevice
setDevice(m, toDevice, blocking, dd) ==
    IF toDevice = m.b.mDevice THEN m
    ELSE IF m.b.mCpuData = nullptr /\ m.b.mGpuData = nullptr
    THEN IF is_cuda(toDevice) /\ ~has_index(toDevice) THEN Throw(m)
         ELSE [m EXCEPT !.b.mDevice = toDevice]
    ELSE IF is_cpu(toDevice) THEN toCpu(m, blocking, dd)
    ELSE IF is_cuda(toDevice) THEN toCuda(m, toDevice, blocking, dd)
    ELSE Throw(m)

\* mutant: the copy is made on the source's own device, whatever the guide's
copyOntoSourceDevice(m, src, guide, dd) ==
    IF src.mCpuData = nullptr /\ src.mGpuData = nullptr
    THEN TorchDeviceBuffer(m, 0, FALSE, TRUE, 0 - 1)
    ELSE LET buffer == create(m, src.mSize, src.mDevice, is_cpu(src.mDevice))
         IN IF buffer.err # "none" THEN buffer
            ELSE IF is_cpu(src.mDevice)
            THEN memcpy(buffer, buffer.b.mCpuData, src.mCpuData)
            ELSE cudaStreamSynchronize(
                     cudaMemcpyAsync(buffer, buffer.b.mGpuData, src.mGpuData,
                                     "DeviceToDevice", src.mDevice.index, dd),
                     src.mDevice.index)

\* GridHandle<TorchDeviceBuffer>::copy(guide): src is the handle's buffer,
\* guide the device of the guide buffer; the result is the new handle's buffer
copy(m, src, guide, dd) ==
    IF src.mCpuData = nullptr /\ src.mGpuData = nullptr
    THEN LET retbuf == TorchDeviceBuffer(m, 0, FALSE, TRUE, 0 - 1)
         IN setDevice(retbuf, guide, FALSE, dd)
    ELSE LET guideIsHost == is_cpu(guide)
             iAmHost == is_cpu(src.mDevice)
             buffer == create(m, src.mSize, guide, guideIsHost)
         IN IF buffer.err # "none" THEN buffer
            ELSE IF iAmHost /\ guideIsHost
            THEN memcpy(buffer, buffer.b.mCpuData, src.mCpuData)
            ELSE IF iAmHost /\ ~guideIsHost
            THEN LET c == cudaMemcpyAsync(buffer, buffer.b.mGpuData, src.mCpuData,
                                          "HostToDevice", guide.index, dd)
                 IN IF c.err # "none" THEN c
                    ELSE cudaStreamSynchronize(c, guide.index)
            ELSE IF ~iAmHost /\ guideIsHost
            THEN LET c == cudaMemcpyAsync(buffer, buffer.b.mCpuData, src.mGpuData,
                                          "DeviceToHost", src.mDevice.index, dd)
                 IN IF c.err # "none" THEN c
                    ELSE cudaStreamSynchronize(c, src.mDevice.index)
            ELSE IF src.mDevice = guide
            THEN LET c == cudaMemcpyAsync(buffer, buffer.b.mGpuData, src.mGpuData,
                                          "DeviceToDevice", src.mDevice.index, dd)
                 IN IF c.err # "none" THEN c
                    ELSE cudaStreamSynchronize(c, src.mDevice.index)
            ELSE LET c1 == cudaMemcpyAsync(buffer, nullptr, src.mGpuData,
                                           "DeviceToHost", src.mDevice.index, dd)
                     c2 == cudaMemcpyAsync(
                               cudaStreamSynchronize(c1, src.mDevice.index),
                               buffer.b.mGpuData, nullptr,
                               "HostToDevice", buffer.b.mDevice.index, dd)
                 IN IF c1.err # "none" THEN c1
                    ELSE IF c2.err # "none" THEN c2
                    ELSE cudaStreamSynchronize(c2, buffer.b.mDevice.index)

\* the last call on a buffer: rel are the regions it released, in order
BufCall(op, b, err, blocking) ==
    [op |-> op, b |-> b, err |-> err, blocking |-> blocking, rel |-> <<>>]

\* a member function of buffer b ended in machine state m; args are the
\* arguments of the call worth keeping besides blocking
ReturnedWith(op, b, m, blocking, args) ==
    /\ buf' = [buf EXCEPT ![b] = m.b]
    /\ hostMem' = m.host
    /\ gpuMem' = m.gpu
    /\ hostData' = m.hostData
    /\ gpuData' = m.gpuData
    /\ blog' = m.log
    /\ blast' = [BufCall(op, b, m.err, blocking) EXCEPT !.rel = m.rel] @@ args

Returned(op, b, m, blocking) == ReturnedWith(op, b, m, blocking, <<>>)

\* a call that ended without touching buffer or heap
Refused(op, b, err) ==
    /\ UNCHANGED <<buf, hostMem, gpuMem, hostData, gpuData>>
    /\ blog' = <<>>
    /\ blast' = BufCall(op, b, err, FALSE)

\* the process is still running, and both heaps have a region to hand out
Running ==
    /\ blast.err # "terminate"
    /\ Regions \ hostMem # {}
    /\ Regions \ gpuMem # {}

(***************************************************************************)
(* Actions of the device buffer                                            *)
(***************************************************************************)
\* TorchDeviceBuffer(size, data, host, deviceIndex)
Construct(b, size, data, host, deviceIndex) ==
    /\ Running
    /\ b \notin balive
    /\ LET m == TorchDeviceBuffer(Mach(b), size, data, host, deviceIndex)
       IN IF m.err # "none"
          THEN /\ UNCHANGED balive
               /\ Refused("construct", b, m.err)
          ELSE /\ balive' = balive \cup {b}
               /\ Returned("construct", b, m, FALSE)

\* TorchDeviceBuffer::create(size, proto, host) into slot b
Create(b, size, proto, host) ==
    /\ Running
    /\ b \notin balive
    /\ LET m == create(Mach(b), size, proto, host)
       IN IF m.err # "none"
          THEN /\ UNCHANGED balive
               /\ Refused("create", b, m.err)
          ELSE /\ balive' = balive \cup {b}
               /\ ReturnedWith("create", b, m, FALSE,
                               [size |-> size, host |-> host, proto |-> proto])

\* init(size, data, host) on a constructed buffer
InitBuffer(b, size, data, host, dd) ==
    /\ Running
    /\ b \in balive
    /\ Returned("init", b, init(Mach(b), size, data, host, dd), FALSE)
    /\ UNCHANGED balive

\* setDevice(toDevice, blocking)
SetDevice(b, toDevice, blocking, dd) ==
    /\ Running
    /\ b \in balive
    /\ ReturnedWith("setDevice", b, setDevice(Mach(b), toDevice, blocking, dd),
                    blocking, [toDevice |-> toDevice])
    /\ UNCHANGED balive

\* toCpu(blocking)
ToCpu(b, blocking, dd) ==
    /\ Running
    /\ b \in balive
    /\ Returned("toCpu", b, toCpu(Mach(b), blocking, dd), blocking)
    /\ UNCHANGED balive

\* toCuda(toDevice, blocking)
ToCuda(b, toDevice, blocking, dd) ==
    /\ Running
    /\ b \in balive
    /\ ReturnedWith("toCuda", b, toCuda(Mach(b), toDevice, blocking, dd),
                    blocking, [toDevice |-> toDevice])
    /\ UNCHANGED balive

\* clear()
Clear(b, dd) ==
    /\ Running
    /\ b \in balive
    /\ Returned("clear", b, clear(Mach(b), dd), FALSE)
    /\ UNCHANGED balive

\* TorchDeviceBuffer(TorchDeviceBuffer &&other) noexcept
MoveConstruct(b, other) ==
    /\ Running
    /\ b \notin balive
    /\ other \in balive
    /\ balive' = balive \cup {b}
    /\ buf' = [buf EXCEPT ![b] = buf[other],
                          ![other] = TorchDeviceBufferEmpty(buf[other].mDevice)]
    /\ blast' = BufCall("moveConstruct", b, "none", FALSE)
    /\ blog' = <<>>
    /\ UNCHANGED <<hostMem, gpuMem, hostData, gpuData>>

\* operator=(TorchDeviceBuffer &&other) noexcept: an exception leaving
\* clear() ends the process
MoveAssign(b, other, dd) ==
    /\ Running
    /\ b \in balive
    /\ other \in balive
    /\ b # other
    /\ LET c == clear(Mach(b), dd)
       IN IF c.err # "none"
          THEN /\ UNCHANGED <<buf, hostMem, gpuMem>>
               /\ blast' = [BufCall("moveAssign", b, "terminate", FALSE)
                                EXCEPT !.rel = c.rel]
          ELSE /\ buf' = [buf EXCEPT ![b] = buf[other],
                                     ![other] = TorchDeviceBufferEmpty(buf[other].mDevice)]
               /\ hostMem' = c.host
               /\ gpuMem' = c.gpu
               /\ blast' = [BufCall("moveAssign", b, "none", FALSE)
                                EXCEPT !.rel = c.rel]
    /\ blog' = <<>>
    /\ UNCHANGED <<balive, hostData, gpuData>>

\* ~TorchDeviceBuffer(): clear(); an exception leaving it ends the process
DestroyBuffer(b, dd) ==
    /\ Running
    /\ b \in balive
    /\ LET c == clear(Mach(b), dd)
       IN IF c.err # "none"
          THEN /\ UNCHANGED <<buf, balive, hostMem, gpuMem>>
               /\ blast' = [BufCall("destroy", b, "terminate", FALSE)
                                EXCEPT !.rel = c.rel]
          ELSE /\ balive' = balive \ {b}
               /\ buf' = [buf EXCEPT ![b] = TorchDeviceBufferEmpty(kCPU)]
               /\ hostMem' = c.host
               /\ gpuMem' = c.gpu
               /\ blast' = [BufCall("destroy", b, "none", FALSE)
                                EXCEPT !.rel = c.rel]
    /\ blog' = <<>>
    /\ UNCHANGED <<hostData, gpuData>>

\* the owner of buffer b writes v over its bytes, through data() on the host
\* or by a kernel on the accelerator
WriteData(b, v) ==
    /\ Running
    /\ b \in balive
    /\ IF is_cpu(buf[b].mDevice)
       THEN /\ buf[b].mCpuData \in hostMem
            /\ hostData' = [hostData EXCEPT ![buf[b].mCpuData] = v]
            /\ UNCHANGED gpuData
       ELSE /\ buf[b].mGpuData \in gpuMem
            /\ gpuData' = [gpuData EXCEPT ![buf[b].mGpuData] = v]
            /\ UNCHANGED hostData
    /\ blast' = BufCall("write", b, "none", FALSE)
    /\ blog' = <<>>
    /\ UNCHANGED <<buf, balive, hostMem, gpuMem>>

\* a non-empty host buffer is migrated to an accelerator and back with two
\* blocking setDevice calls
MigrateThereAndBack(b, toDevice, dd) ==
    /\ Running
    /\ b \in balive
    /\ is_cpu(buf[b].mDevice)
    /\ buf[b].mCpuData # nullptr
    /\ is_cuda(toDevice) /\ has_index(toDevice)
    /\ LET m1 == setDevice(Mach(b), toDevice, TRUE, dd)
           m2 == IF m1.err = "none" THEN setDevice(m1, kCPU, TRUE, dd) ELSE m1
       IN ReturnedWith("roundTrip", b, m2, TRUE, [toDevice |-> toDevice])
    /\ UNCHANGED balive

\* GridHandle::copy(guide) of the handle over buffer s, into slot b; if the
\* copy throws, the buffer it was building is destroyed
CopyHandle(b, s, guide, dd) ==
    /\ Running
    /\ b \notin balive
    /\ s \in balive
    /\ LET m == copy(Mach(b), buf[s], guide, dd)
           args == [src |-> s, guide |-> guide]
       IN IF m.err # "none"
          THEN /\ UNCHANGED balive
               /\ ReturnedWith("copy", b,
                               [clear([m EXCEPT !.err = "none"], "returns")
                                   EXCEPT !.b = buf[b], !.err = m.err],
                               FALSE, args)
          ELSE /\ balive' = balive \cup {b}
               /\ ReturnedWith("copy", b, m, FALSE, args)

(***************************************************************************)
(* GridBatch: the construction paths set_from_mesh, set_from_points,       *)
(* set_from_nearest_voxels_to_points, set_from_ijk and set_from_dense_grid.*)
(* A tensor argument is the record of what the checks read of it.          *)
(***************************************************************************)
\* the largest number of grids a batch may have, at the scale of the model
MAX_GRIDS_PER_BATCH == MaxGrids

SetFromPaths == {"set_from_mesh", "set_from_points",
                 "set_from_nearest_voxels_to_points", "set_from_ijk",
                 "set_from_dense_grid"}

\* what the builders of detail::build do once called: return a grid handle,
\* or throw
BuilderOutcomes == {"builds", "throws"}

\* a JaggedTensor of n lists of (m, 3) floating point values on device dev
GoodTensor(dev, n) ==
    [ldim |-> 1, dtype |-> "float", rdim |-> 2, rsize1 |-> 3, device |-> dev,
     lists |-> n]

\* the counts a caller may ask for: none, the limit, and one more
GridCounts == {0, MAX_GRIDS_PER_BATCH, MAX_GRIDS_PER_BATCH + 1}

\* the tensors a caller may pass where a floating point one is expected:
\* a good one on either device with any of the counts, and one list wrong
\* in one respect
FloatTensors ==
    {GoodTensor(d, n) : d \in Devices, n \in GridCounts} \cup
    {[GoodTensor("cpu", 1) EXCEPT !.ldim = 2],
     [GoodTensor("cpu", 1) EXCEPT !.dtype = "int"],
     [GoodTensor("cpu", 1) EXCEPT !.rdim = 3],
     [GoodTensor("cpu", 1) EXCEPT !.rsize1 = 2]}

\* the same where an integer one is expected
IntTensors ==
    {[t EXCEPT !.dtype = IF t.dtype = "float" THEN "int" ELSE "float"] :
        t \in FloatTensors}

\* the faces passed with mesh vertices v: as many lists of integers, or
\* floating point values, or one list more
FacesFor(v) ==
    {[GoodTensor(v.device, v.lists) EXCEPT !.dtype = "int"],
     GoodTensor(v.device, v.lists),
     [GoodTensor(v.device, v.lists + 1) EXCEPT !.dtype = "int"]}

\* the mask of set_from_dense_grid: none, or a boolean tensor of the shape
\* of the grid on either device, or one of another type or shape
NoMask == [has_value |-> FALSE, device |-> "cpu", dtype |-> "bool", shapeOk |-> TRUE]
Masks == {NoMask} \cup
         {[NoMask EXCEPT !.has_value = TRUE, !.device = d] : d \in Devices} \cup
         {[NoMask EXCEPT !.has_value = TRUE, !.dtype = "float"],
          [NoMask EXCEPT !.has_value = TRUE, !.shapeOk = FALSE]}

\* the arguments of a call of set_from_mesh: good vertices with good faces,
\* and calls wrong in one respect (the vertices, the faces, the voxel sizes)
MeshArgs ==
    LET call(v, f, p) == [tensor |-> v, faces |-> f, sizesPositive |-> p,
                          count |-> v.lists, mask |-> NoMask, dimsOk |-> TRUE]
        good(v) == [GoodTensor(v.device, v.lists) EXCEPT !.dtype = "int"]
    IN {call(v, good(v), TRUE) : v \in FloatTensors} \cup
       UNION {{call(GoodTensor(d, n), f, TRUE) : f \in FacesFor(GoodTensor(d, n))} :
                  d \in Devices, n \in GridCounts} \cup
       {call(GoodTensor(d, n), good(GoodTensor(d, n)), FALSE) :
            d \in Devices, n \in GridCounts}

\* the arguments of a call of set_from_dense_grid: any count with no mask
\* or a good one on either device, and calls wrong in one respect (the mask,
\* the dimensions, the voxel sizes)
DenseArgs ==
    LET call(n, m, p, ok) ==
            [tensor |-> GoodTensor("cpu", 0), faces |-> GoodTensor("cpu", 0),
             sizesPositive |-> p, count |-> n, mask |-> m, dimsOk |-> ok]
        GoodMasks == {m \in Masks : m.dtype = "bool" /\ m.shapeOk}
    IN {call(n, m, TRUE, TRUE) : n \in {0 - 1} \cup GridCounts, m \in GoodMasks} \cup
       {call(n, m, TRUE, TRUE) : n \in GridCounts, m \in Masks} \cup
       {call(n, NoMask, p, ok) : n \in GridCounts, p \in BOOLEAN, ok \in BOOLEAN}

\* the arguments of one call of a construction path
SetFromArgs(path) ==
    IF path = "set_from_mesh" THEN MeshArgs
    ELSE IF path = "set_from_dense_grid" THEN DenseArgs
    ELSE {[tensor |-> v, faces |-> GoodTensor("cpu", 0), sizesPositive |-> p,
           count |-> v.lists, mask |-> NoMask, dimsOk |-> TRUE] :
             v \in (IF path = "set_from_ijk" THEN IntTensors ELSE FloatTensors),
             p \in BOOLEAN}

\* a check of a construction path failed: the exception and the check
Rejects(err, why) == [err |-> err, why |-> why, built |-> FALSE]

\* mutant: the limit is taken as exclusive
belowBatchLimit(numGrids) == numGrids < MAX_GRIDS_PER_BATCH

\* numGrids <= MAX_GRIDS_PER_BATCH
withinBatchLimit(numGrids) == numGrids <= MAX_GRIDS_PER_BATCH

\* GridBatchImpl::checkDevice(t)
checkDevice(self, t) == device(self) = t.device

\* Vec3dBatchOrScalar::value(numGrids, onlyPositive = true, "voxel_sizes")
voxelSizesValue(args) == args.sizesPositive

\* the builder is called and its handle is given to GridBatchImpl's
\* constructor
buildAndConstruct(b) ==
    IF b = "throws" THEN [err |-> "Error", why |-> "build", built |-> TRUE]
    ELSE [err |-> "none", why |-> "", built |-> TRUE]

\* the checks every path makes of a list of coordinates: one list
\* dimension, the element type, shape (n, 3)
checkCoordinates(t, dtype) ==
    IF t.ldim # 1 THEN Rejects("ValueError", "ldim")
    ELSE IF t.dtype # dtype THEN Rejects("TypeError", "dtype")
    ELSE IF t.rdim # 2 THEN Rejects("ValueError", "rdim")
    ELSE IF t.rsize1 # 3 THEN Rejects("ValueError", "rsize")
    ELSE [err |-> "none", why |-> "", built |-> FALSE]

\* set_from_mesh up to the assignment of mImpl
set_from_mesh(self, args, b) ==
    LET v == args.tensor
        f == args.faces
    IN IF v.ldim # 1 THEN Rejects("ValueError", "ldim")
       ELSE IF f.ldim # 1 THEN Rejects("ValueError", "ldim")
       ELSE IF checkCoordinates(v, "float").err # "none" THEN checkCoordinates(v, "float")
       ELSE IF checkCoordinates(f, "int").err # "none" THEN checkCoordinates(f, "int")
       ELSE IF v.lists # f.lists THEN Rejects("ValueError", "num_outer_lists")
       ELSE IF ~withinBatchLimit(v.lists)
       THEN Rejects("ValueError", "MAX_GRIDS_PER_BATCH")
       ELSE IF ~voxelSizesValue(args) THEN Rejects("ValueError", "voxel_sizes")
       ELSE buildAndConstruct(b)

\* set_from_points, set_from_nearest_voxels_to_points (dtype "float") and
\* set_from_ijk (dtype "int") up to the assignment of mImpl
set_from_coordinates(self, args, dtype, b) ==
    LET t == args.tensor
    IN IF checkCoordinates(t, dtype).err # "none" THEN checkCoordinates(t, dtype)
       ELSE IF ~checkDevice(self, t) THEN Rejects("Error", "checkDevice")
       ELSE IF ~withinBatchLimit(t.lists)
       THEN Rejects("ValueError", "MAX_GRIDS_PER_BATCH")
       ELSE IF ~voxelSizesValue(args) THEN Rejects("ValueError", "voxel_sizes")
       ELSE buildAndConstruct(b)

\* set_from_dense_grid up to the assignment of mImpl
set_from_dense_grid(self, args, b) ==
    LET m == args.mask
    IN IF ~(args.count >= 0) THEN Rejects("ValueError", "num_grids")
       ELSE IF m.has_value /\ ~checkDevice(self, m) THEN Rejects("Error", "checkDevice")
       ELSE IF m.has_value /\ m.dtype # "bool" THEN Rejects("ValueError", "mask dtype")
       ELSE IF m.has_value /\ ~m.shapeOk THEN Rejects("ValueError", "mask shape")
       ELSE IF ~args.dimsOk THEN Rejects("ValueError", "size")
       ELSE IF ~voxelSizesValue(args) THEN Rejects("ValueError", "voxel_sizes")
       ELSE IF ~withinBatchLimit(args.count)
       THEN Rejects("ValueError", "MAX_GRIDS_PER_BATCH")
       ELSE buildAndConstruct(b)

setFrom(self, path, args, b) ==
    IF path = "set_from_mesh" THEN set_from_mesh(self, args, b)
    ELSE IF path = "set_from_dense_grid" THEN set_from_dense_grid(self, args, b)
    ELSE set_from_coordinates(self, args,
                              IF path = "set_from_ijk" THEN "int" ELSE "float", b)

\* the grids of the handle a builder returns for count grids
BuiltGrids(count) == [i \in 1..count |-> GridDescs[(i % Len(GridDescs)) + 1]]

\* the device of the handle a builder returns: buildDenseGrid is given
\* device(), the others build where their tensor is
BuiltDevice(self, path, args) ==
    IF path = "set_from_dense_grid" THEN device(self) ELSE args.tensor.device

\* mutant: mImpl is assigned whenever the builder was called
assignsOnceBuilderCalled(r) == r.built

\* mImpl = c10::make_intrusive<GridBatchImpl>(build(...), sizes, origins):
\* the assignment is reached when nothing before it threw
assignsImpl(r) == r.err = "none"

\* a construction path is called on the GridBatch
SetFrom(path, args, b) ==
    /\ gb.mImpl \in live
    \* the outcome of the builder is an input of the calls that reach it
    /\ b = "builds" \/ setFrom(inst[gb.mImpl], path, args, b).built
    /\ LET self == inst[gb.mImpl]
           r == setFrom(self, path, args, b)
           new == FreeSlot
           h == FreeHdl
           dev == BuiltDevice(self, path, args)
           ds == IF r.err = "none" THEN BuiltGrids(args.count) ELSE <<>>
       IN IF assignsImpl(r)
          THEN /\ Slots \ live # {}
               /\ live' = (live \ {gb.mImpl}) \cup {new}
               /\ inst' = [inst EXCEPT
                              ![new] = GridBatchImplFromHandle(ds, h, dev,
                                                               isMutable(self), 0),
                              ![gb.mImpl] = GridBatchImplDefault]
               /\ hdl' = releaseGridHdl(
                             [hdl EXCEPT ![h] = [state |-> "live", refs |-> 1,
                                                 device |-> dev,
                                                 isEmpty |-> (Len(ds) = 0)]],
                             self.mGridHdl)
               /\ gb' = [gb EXCEPT !.mImpl = new]
               /\ last' = Call(path, gb.mImpl, <<>>, new, r.err, r.why)
                              @@ [args |-> args, built |-> r.built, on |-> device(self)]
          ELSE /\ UNCHANGED <<live, inst, hdl, gb>>
               /\ last' = Call(path, gb.mImpl, <<>>, 0, r.err, r.why)
                              @@ [args |-> args, built |-> r.built, on |-> device(self)]
    /\ UNCHANGED acc

\* no GridBatch
NoGridBatch == gb = [mImpl |-> 0]

(***************************************************************************)
(* Initial states: one batch built from a handle of up to MaxGrids grids   *)
(***************************************************************************)
\* the handles a batch is built from: n grids taken round-robin from
\* GridDescs, starting at any of them
RootGrids == {[i \in 1..n |-> GridDescs[((i + k) % Len(GridDescs)) + 1]] :
                  n \in 0..MaxGrids, k \in 1..Len(GridDescs)}

GridInitOn(devs, nesting) ==
    \E ds \in RootGrids, dev \in devs, mut \in BOOLEAN, lists \in nesting :
        /\ live = {1}
        /\ inst = [x \in Slots |->
                     IF x = 1 THEN GridBatchImplFromHandle(ds, 1, dev, mut, lists)
                     ELSE GridBatchImplDefault]
        /\ hdl = [h \in Handles |->
                     IF h = 1 THEN [state |-> "live", refs |-> 1, device |-> dev,
                                    isEmpty |-> (Len(ds) = 0)]
                     ELSE NoHandle]
        /\ last = Call("construct", 1, <<>>, 1, "none", 0)
        /\ acc = NoAccessor

\* no buffer constructed, both heaps empty, every region holding v0
BufInitWith(v0) ==
    /\ buf = [b \in BufSlots |-> TorchDeviceBufferEmpty(kCPU)]
    /\ balive = {}
    /\ hostMem = {}
    /\ gpuMem = {}
    /\ blast = BufCall("none", 0, "none", FALSE)
    /\ hostData = [r \in Regions |-> v0]
    /\ gpuData = [r \in Regions |-> v0]
    /\ blog = <<>>

\* no buffer constructed, both heaps empty
BufInit == BufInitWith(0)

\* no batch constructed
GridIdle ==
    /\ live = {}
    /\ inst = [x \in Slots |-> GridBatchImplDefault]
    /\ hdl = [h \in Handles |-> NoHandle]
    /\ last = Call("none", 0, <<>>, 0, "none", 0)
    /\ acc = NoAccessor

\* index and the queries start from a batch on the accelerator, where
\* index also writes the metadata back to the device mirror
Init == GridInitOn({"cuda"}, 0..1) /\ BufInit /\ XformIdle /\ NoGridBatch

\* index lists of one entry, over every index value
IndexOne(s, bi) == Index(s, <<bi>>)

Next ==
    \/ \E s \in Slots, idx \in IdxLists : Index(s, idx) /\ UNCHANGED <<bufVars, xformVars, apiVars>>
    \/ \E s \in Slots : Destroy(s) /\ UNCHANGED <<bufVars, xformVars, apiVars>>

Spec == Init /\ [][Next]_vars

\* how many voxels of a grid of a mutable batch were disabled
DisabledVoxels == {0, 1}

QueryNext ==
    \/ \E s \in Slots, bi \in IdxVals, fld \in QueryFields :
           Query(s, bi, fld) /\ UNCHANGED <<bufVars, xformVars, apiVars>>
    \/ \E s \in Slots, bi \in IdxVals, q \in ElementQueries :
           QueryElement(s, bi, q) /\ UNCHANGED <<bufVars, xformVars, apiVars>>
    \/ \E s \in Slots, bi \in IdxVals : IndexOne(s, bi) /\ UNCHANGED <<bufVars, xformVars, apiVars>>
    \/ \E s \in Slots, bi \in IdxVals, off \in DisabledVoxels :
           CumEnabledVoxelsAt(s, bi, off) /\ UNCHANGED <<bufVars, xformVars, apiVars>>

QuerySpec == Init /\ [][QueryNext]_vars

\* batches that are not nested lists, on either device
SyncInit == GridInitOn(Devices, {0}) /\ BufInit /\ XformIdle /\ NoGridBatch

SyncNext ==
    \/ \E s \in Slots, bi \in ListVals : IndexOne(s, bi) /\ UNCHANGED <<bufVars, xformVars, apiVars>>
    \/ \E s \in Slots, v \in VoxelSizes, sync \in BOOLEAN :
           SetGlobalVoxelSize(s, v, sync) /\ UNCHANGED <<bufVars, xformVars, apiVars>>
    \/ \E s \in Slots : DeviceAccessor(s) /\ UNCHANGED <<bufVars, xformVars, apiVars>>
    \/ \E s \in Slots : HostAccessor(s) /\ UNCHANGED <<bufVars, xformVars, apiVars>>

SyncSpec == SyncInit /\ [][SyncNext]_vars

\* accessors and calls of their methods
AccNext ==
    \/ \E s \in Slots : HostAccessor(s) /\ UNCHANGED <<bufVars, xformVars, apiVars>>
    \/ \E s \in Slots : DeviceAccessor(s) /\ UNCHANGED <<bufVars, xformVars, apiVars>>
    \/ \E method \in AccessorMethods \cup {"leafBatchIndex"}, bi \in IdxVals,
          ub \in AccessOutcomes :
           AccessorCall(method, bi, ub) /\ UNCHANGED <<bufVars, xformVars, apiVars>>

AccSpec == SyncInit /\ [][AccNext]_vars

\* coarsening a voxel size and origin and subdividing the result
XformInit == GridIdle /\ BufInit /\ XformInput /\ NoGridBatch

XformNext ==
    \/ Coarsen /\ UNCHANGED <<gridVars, bufVars, apiVars>>
    \/ Subdivide /\ UNCHANGED <<gridVars, bufVars, apiVars>>

XformSpec == XformInit /\ [][XformNext]_vars

\* a GridBatch over one batch, and calls of its construction paths
\* GridBatch(device, isMutable): an empty batch on device
GridBatchOn(dev, mut) ==
    /\ live = {1}
    /\ inst = [x \in Slots |-> IF x = 1 THEN GridBatchImplEmpty(1, mut)
                                ELSE GridBatchImplDefault]
    /\ hdl = newEmptyHdl([h \in Handles |-> NoHandle], 1, dev)
    /\ last = Call("construct", 1, <<>>, 1, "none", 0)
    /\ acc = NoAccessor
    /\ gb = [mImpl |-> 1]

ApiInit ==
    /\ \E dev \in Devices, mut \in BOOLEAN : GridBatchOn(dev, mut)
    /\ BufInit /\ XformIdle

ApiNext ==
    \E path \in SetFromPaths, b \in BuilderOutcomes :
        \E args \in SetFromArgs(path) :
            SetFrom(path, args, b) /\ UNCHANGED <<bufVars, xformVars>>

ApiSpec == ApiInit /\ [][ApiNext]_vars

BufSpecInit == GridIdle /\ BufInit /\ XformIdle /\ NoGridBatch

BufNext ==
    \/ \E b \in BufSlots, size \in BufSizes, data \in BOOLEAN, host \in BOOLEAN,
          deviceIndex \in (0 - 1)..1 :
           /\ (host => deviceIndex = 0 - 1)
           /\ Construct(b, size, data, host, deviceIndex)
           /\ UNCHANGED <<gridVars, xformVars, apiVars>>
    \/ \E b \in BufSlots, size \in BufSizes, data \in BOOLEAN, host \in BOOLEAN,
          dd \in DanglingOutcomes :
           InitBuffer(b, size, data, host, dd) /\ UNCHANGED <<gridVars, xformVars, apiVars>>
    \/ \E b \in BufSlots, toDevice \in TargetDevices, blocking \in BOOLEAN,
          dd \in DanglingOutcomes :
           SetDevice(b, toDevice, blocking, dd) /\ UNCHANGED <<gridVars, xformVars, apiVars>>
    \/ \E b \in BufSlots, blocking \in BOOLEAN, dd \in DanglingOutcomes :
           ToCpu(b, blocking, dd) /\ UNCHANGED <<gridVars, xformVars, apiVars>>
    \/ \E b \in BufSlots, toDevice \in TargetDevices, blocking \in BOOLEAN,
          dd \in DanglingOutcomes :
           ToCuda(b, toDevice, blocking, dd) /\ UNCHANGED <<gridVars, xformVars, apiVars>>
    \/ \E b \in BufSlots, dd \in DanglingOutcomes : Clear(b, dd) /\ UNCHANGED <<gridVars, xformVars, apiVars>>
    \/ \E b \in BufSlots, other \in BufSlots :
           MoveConstruct(b, other) /\ UNCHANGED <<gridVars, xformVars, apiVars>>
    \/ \E b \in BufSlots, other \in BufSlots, dd \in DanglingOutcomes :
           MoveAssign(b, other, dd) /\ UNCHANGED <<gridVars, xformVars, apiVars>>
    \/ \E b \in BufSlots, dd \in DanglingOutcomes :
           DestroyBuffer(b, dd) /\ UNCHANGED <<gridVars, xformVars, apiVars>>

BufSpec == BufSpecInit /\ [][BufNext]_vars

\* the buffer machine with contents: memory that was never written holds
\* zeros or something else
DataInit == GridIdle /\ XformIdle /\ NoGridBatch /\ \E v0 \in Bytes : BufInitWith(v0)

\* the sizes buffers are made with here: none, and the largest
DataSizes == {0, MaxSize}

\* a new buffer takes the lowest slot not in use
FreeBuf(b) == b \notin balive /\ \A c \in BufSlots \ balive : b <= c

DataNext ==
    \/ \E b \in BufSlots, size \in DataSizes, host \in BOOLEAN,
          deviceIndex \in (0 - 1)..1 :
           /\ FreeBuf(b)
           /\ (host => deviceIndex = 0 - 1)
           /\ Construct(b, size, FALSE, host, deviceIndex)
           /\ UNCHANGED <<gridVars, xformVars, apiVars>>
    \/ \E b \in BufSlots, size \in DataSizes, proto \in GuideDevices \cup {NoProto},
          host \in BOOLEAN :
           FreeBuf(b) /\ Create(b, size, proto, host) /\ UNCHANGED <<gridVars, xformVars, apiVars>>
    \/ \E b \in BufSlots, v \in Bytes : WriteData(b, v) /\ UNCHANGED <<gridVars, xformVars, apiVars>>
    \/ \E b \in BufSlots, toDevice \in TargetDevices, blocking \in BOOLEAN,
          dd \in DanglingOutcomes :
           SetDevice(b, toDevice, blocking, dd) /\ UNCHANGED <<gridVars, xformVars, apiVars>>
    \/ \E b \in BufSlots, toDevice \in TargetDevices, dd \in DanglingOutcomes :
           MigrateThereAndBack(b, toDevice, dd) /\ UNCHANGED <<gridVars, xformVars, apiVars>>
    \/ \E b \in BufSlots, s \in BufSlots, guide \in GuideDevices,
          dd \in DanglingOutcomes :
           FreeBuf(b) /\ CopyHandle(b, s, guide, dd) /\ UNCHANGED <<gridVars, xformVars, apiVars>>
    \/ \E b \in BufSlots, dd \in DanglingOutcomes :
           DestroyBuffer(b, dd) /\ UNCHANGED <<gridVars, xformVars, apiVars>>

DataSpec == DataInit /\ [][DataNext]_vars

(***************************************************************************)
(* Properties of index                                                     *)
(***************************************************************************)
\* the position an index entry names in a batch of n elements
Resolved(n, bi) == IF bi < 0 THEN n + bi ELSE bi

InRange(n, bi) == bi >= 0 - n /\ bi < n

IndexReturned == last.op = "index" /\ last.err = "none"

\* the source and the result of the last index call, and its list
SrcOfLast == inst[last.src]
ResOfLast == inst[last.res]

\* C1: index(B, L) has as many elements as L has entries, and element i of
\* the result has the voxel count and the leaf count of B's element L[i]
\* (negative entries counted from the end); a list of valid entries over a
\* batch that is no nested list does not fail.
C1_IndexSelects ==
    /\ IndexReturned =>
          /\ batchSize(ResOfLast) = Len(last.idx)
          /\ \A i \in 1..Len(last.idx) :
                LET e == SrcOfLast.mHostGridMetadata[
                             Resolved(batchSize(SrcOfLast), last.idx[i]) + 1]
                IN /\ numVoxels(ResOfLast, i - 1) = e.mNumVoxels
                   /\ numLeaves(ResOfLast, i - 1) = e.mNumLeaves
    /\ (/\ last.op = "index"
        /\ SrcOfLast.mListIndices = 0
        /\ \A i \in 1..Len(last.idx) : InRange(batchSize(SrcOfLast), last.idx[i]))
       => last.err = "none"

\* a permuting list with a negative entry was applied to a 3-element batch
C1_Witness ==
    /\ IndexReturned
    /\ batchSize(SrcOfLast) = 3
    /\ last.idx = <<0 - 1, 0>>
    /\ numVoxels(ResOfLast, 0) # numVoxels(ResOfLast, 1)

\* C2: in every batch, element i's cumulative voxel (leaf) count is the sum
\* of the voxel (leaf) counts of the elements before it in that batch; and
\* indexing a 3-element batch with [2,0] gives cumVoxels(1) = numVoxels(2)
\* of the original.
C2_CumulativeArePrefixSums ==
    /\ \A x \in live : \A i \in 1..batchSize(inst[x]) :
          /\ cumVoxels(inst[x], i - 1) = SumVoxels(inst[x].mHostGridMetadata, i - 1)
          /\ cumLeaves(inst[x], i - 1) = SumLeaves(inst[x].mHostGridMetadata, i - 1)
    /\ (IndexReturned /\ batchSize(SrcOfLast) = 3 /\ last.idx = <<2, 0>>)
       => cumVoxels(ResOfLast, 1) = numVoxels(SrcOfLast, 2)

\* [2,0] was applied to a 3-element batch whose last grid has voxels
C2_Witness ==
    /\ IndexReturned
    /\ batchSize(SrcOfLast) = 3
    /\ last.idx = <<2, 0>>
    /\ cumVoxels(ResOfLast, 1) > 0
    /\ cumVoxels(SrcOfLast, 2) # cumVoxels(ResOfLast, 1)

\* C3: in every batch, totalVoxels() is the sum of numVoxels(i) and
\* totalLeaves() the sum of numLeaves(i) over all elements, and batchSize()
\* is the length of the host metadata array.
C3_TotalsAreSums ==
    \A x \in live :
        /\ totalVoxels(inst[x]) =
               SumVoxels(inst[x].mHostGridMetadata, Len(inst[x].mHostGridMetadata))
        /\ totalLeaves(inst[x]) =
               SumLeaves(inst[x].mHostGridMetadata, Len(inst[x].mHostGridMetadata))
        /\ batchSize(inst[x]) = Len(inst[x].mHostGridMetadata)

\* a repeated element: the result's total differs from its source's
C3_Witness ==
    /\ IndexReturned
    /\ Len(last.idx) = 2
    /\ last.idx[1] = last.idx[2]
    /\ totalVoxels(ResOfLast) > totalVoxels(SrcOfLast)

\* the positions a list selects are 0, 1, ..., n-1 in this order
IsIdentity(n, idx) ==
    Len(idx) = n /\ \A i \in 1..Len(idx) : Resolved(n, idx[i]) = i - 1

\* C4 as stated: the identity list keeps the source's contiguity flag, every
\* other list gives contiguity=false, and a non-contiguous source never gives
\* a contiguous result.
C4_AsStated ==
    IndexReturned =>
        /\ IsIdentity(batchSize(SrcOfLast), last.idx)
              => isContiguous(ResOfLast) = isContiguous(SrcOfLast)
        /\ ~IsIdentity(batchSize(SrcOfLast), last.idx) => ~isContiguous(ResOfLast)
        /\ ~isContiguous(SrcOfLast) => ~isContiguous(ResOfLast)

\* C4 (amended): the identity list keeps the source's contiguity flag; every
\* other list with at least one entry gives contiguity=false, and a
\* non-contiguous source indexed with at least one entry never gives a
\* contiguous result; the empty list gives an empty batch with contiguity=true.
C4_Contiguity ==
    IndexReturned =>
        /\ IsIdentity(batchSize(SrcOfLast), last.idx)
              => isContiguous(ResOfLast) = isContiguous(SrcOfLast)
        /\ (Len(last.idx) > 0 /\ ~IsIdentity(batchSize(SrcOfLast), last.idx))
              => ~isContiguous(ResOfLast)
        /\ (Len(last.idx) > 0 /\ ~isContiguous(SrcOfLast)) => ~isContiguous(ResOfLast)
        /\ Len(last.idx) = 0 => (isContiguous(ResOfLast) /\ batchSize(ResOfLast) = 0)

\* the identity list was applied to a non-contiguous 2-element batch
C4_Witness ==
    /\ IndexReturned
    /\ batchSize(SrcOfLast) = 2
    /\ last.idx = <<0, 0 - 1>>
    /\ ~isContiguous(SrcOfLast)
    /\ ~isContiguous(ResOfLast)

C6_AsStated ==
    \A x \in live : \A i \in 1..batchSize(inst[x]) :
        cumBytes(inst[x], i - 1) = SumBytes(inst[x].mHostGridMetadata, i - 1)

\* C6 (amended): index keeps each selected element's cumulative byte offset
\* as it is in the source (its place in the shared storage buffer); the
\* offsets are the running sum of the byte sizes only in a contiguous batch.
C6_ByteOffsetsKept ==
    /\ IndexReturned =>
          \A i \in 1..Len(last.idx) :
              cumBytes(ResOfLast, i - 1) =
                  cumBytes(SrcOfLast, Resolved(batchSize(SrcOfLast), last.idx[i]))
    /\ \A x \in live : isContiguous(inst[x]) =>
          \A i \in 1..batchSize(inst[x]) :
              cumBytes(inst[x], i - 1) = SumBytes(inst[x].mHostGridMetadata, i - 1)

\* the last grid of a 2-element batch was selected alone: its offset is not 0
C6_Witness ==
    /\ IndexReturned
    /\ batchSize(SrcOfLast) = 2
    /\ last.idx = <<1>>
    /\ cumBytes(ResOfLast, 0) > 0

\* every handle in use is held by a live instance, and every handle a live
\* instance holds is in use with one owner counted for each instance
HandlesAreCounted ==
    /\ \A h \in Handles :
          hdl[h].state = "live" => \E x \in live : inst[x].mGridHdl = h
    /\ \A x \in live :
          /\ hdl[inst[x].mGridHdl].state = "live"
          /\ hdl[inst[x].mGridHdl].refs =
                 Cardinality({y \in live : inst[y].mGridHdl = inst[x].mGridHdl})

\* C8 as stated: every instance index returns shares its source's storage
\* handle, and a storage buffer is released exactly when its last instance
\* is destroyed.
C8_AsStated ==
    /\ IndexReturned => ResOfLast.mGridHdl = SrcOfLast.mGridHdl
    /\ HandlesAreCounted

\* C8 (amended): every instance index returns for a list of at least one entry
\* shares its source's storage handle; for the empty list index returns a
\* batch of no elements that does not hold the source's handle; a storage
\* buffer is never released while a live instance holds it, and is released
\* when the last instance holding it is destroyed.
C8_SharedHandle ==
    /\ (IndexReturned /\ Len(last.idx) > 0) => ResOfLast.mGridHdl = SrcOfLast.mGridHdl
    /\ (IndexReturned /\ Len(last.idx) = 0) =>
          /\ ResOfLast.mGridHdl # SrcOfLast.mGridHdl
          /\ batchSize(ResOfLast) = 0
    /\ HandlesAreCounted

\* the source of a view was destroyed and its buffer lives on with the view
C8_Witness ==
    /\ last.op = "destroy"
    /\ Cardinality(live) = 1
    /\ \E x \in live : /\ batchSize(inst[x]) = 2
                       /\ ~isContiguous(inst[x])
                       /\ hdl[inst[x].mGridHdl].state = "live"
                       /\ hdl[inst[x].mGridHdl].refs = 1
    /\ \E h \in Handles : hdl[h].state = "freed"

\* C9: a failing index (an entry out of range at any position, or a nested
\* list) returns no instance and leaves every instance, its metadata, flags
\* and storage handle, and every handle's owners, as they were.
C9_FailedIndexChangesNothing ==
    [][(last'.op = "index" /\ last'.err # "none")
          => (last'.res = 0 /\ inst' = inst /\ live' = live /\ hdl' = hdl)]_vars

\* index failed on the second entry of its list, after a valid first entry
C9_Witness ==
    /\ last.op = "index"
    /\ last.err = "IndexError"
    /\ Len(last.idx) = 2
    /\ InRange(batchSize(SrcOfLast), last.idx[1])
    /\ batchSize(SrcOfLast) = 2
    /\ Cardinality(live) = 2

\* C7: whenever deviceAccessor() succeeds, the accelerator-resident metadata
\* array it exposes equals the host metadata array, after any sequence of
\* construction, index and setGlobalVoxelSize calls, also with
\* syncToDevice=false.
C7_DeviceAccessorInSync ==
    (last.op = "deviceAccessor" /\ last.err = "none")
        => (acc.valid /\ acc.mMetadata = SrcOfLast.mHostGridMetadata)

(***************************************************************************)
(* Properties of the device buffer                                         *)
(***************************************************************************)
\* C10: after any sequence of construct/init/setDevice/toCpu/toCuda/clear/
\* move operations, every buffer has at most one of its host pointer and its
\* accelerator pointer non-null, and a non-empty buffer's recorded device is
\* the CPU exactly when its host pointer is the non-null one.
C10_OneResidence ==
    \A b \in balive :
        /\ ~(buf[b].mCpuData # nullptr /\ buf[b].mGpuData # nullptr)
        /\ (buf[b].mCpuData # nullptr \/ buf[b].mGpuData # nullptr)
              => (is_cpu(buf[b].mDevice) <=> buf[b].mCpuData # nullptr)

\* what buffer record r holds, read through the pointer its device names, in
\* the heaps hd (host) and gd (accelerator)
Content(r, hd, gd) ==
    IF is_cpu(r.mDevice) THEN hd[r.mCpuData] ELSE gd[r.mGpuData]

BufIsEmpty(r) == r.mCpuData = nullptr /\ r.mGpuData = nullptr

\* the pointer r's device names points at a region its heap holds
ResidentIsLive(r, hm, gm) ==
    IF is_cpu(r.mDevice) THEN r.mCpuData \in hm ELSE r.mGpuData \in gm

\* C11: migrating a non-empty host buffer to an accelerator and back with
\* blocking setDevice calls yields a buffer on the host with the same size
\* and the same contents.
C11_RoundTrip ==
    [][blast'.op = "roundTrip" =>
          LET b == blast'.b
          IN /\ blast'.err = "none"
             /\ is_cpu(buf'[b].mDevice)
             /\ buf'[b].mCpuData \in hostMem'
             /\ buf'[b].mGpuData = nullptr
             /\ buf'[b].mSize = buf[b].mSize
             /\ hostData'[buf'[b].mCpuData] = hostData[buf[b].mCpuData]]_vars

\* C12: when setDevice(target, blocking=true) returns, every copy it issued
\* is followed by a synchronisation of the stream it was issued on.
C12_BlockingCopiesComplete ==
    (blast.op = "setDevice" /\ blast.blocking /\ blast.err = "none") =>
        \A i \in 1..Len(blog) :
            blog[i].ev = "memcpy" =>
                \E j \in (i + 1)..Len(blog) : blog[j] = SyncEvent(blog[i].stream)

\* the log of a copy staged through the host from device i to device j: a
\* device-to-host copy on i's stream, then a synchronisation of that stream,
\* then a host-to-device copy on j's stream, and no device-to-device copy
StagedThroughHost(log, i, j) ==
    /\ \A k \in 1..Len(log) : log[k].ev = "memcpy" => log[k].kind # "DeviceToDevice"
    /\ \E a \in 1..Len(log), c \in 1..Len(log) :
          /\ a < c
          /\ log[a] = MemcpyEvent("DeviceToHost", i)
          /\ log[c] = MemcpyEvent("HostToDevice", j)
          /\ \E s \in (a + 1)..(c - 1) : log[s] = SyncEvent(i)
          /\ \A k \in 1..Len(log) :
                (log[k].ev = "memcpy" /\ log[k].kind = "HostToDevice") => k > a

\* C13: setDevice of a non-empty buffer, and GridHandle::copy of a non-empty
\* source, between two different accelerator devices stage the data through
\* a host buffer: the device-to-host copy is synchronised before the
\* host-to-device copy is issued, and no device-to-device copy is issued.
C13_StagedAcrossDevices ==
    [][/\ (/\ blast'.op = "setDevice"
            /\ blast'.err = "none"
            /\ ~BufIsEmpty(buf[blast'.b])
            /\ is_cuda(buf[blast'.b].mDevice)
            /\ is_cuda(blast'.toDevice)
            /\ blast'.toDevice # buf[blast'.b].mDevice)
           => StagedThroughHost(blog', buf[blast'.b].mDevice.index,
                                blast'.toDevice.index)
       /\ (/\ blast'.op = "copy"
            /\ blast'.err = "none"
            /\ ~BufIsEmpty(buf[blast'.src])
            /\ is_cuda(buf[blast'.src].mDevice)
            /\ is_cuda(blast'.guide)
            /\ blast'.guide # buf[blast'.src].mDevice)
           => StagedThroughHost(blog', buf[blast'.src].mDevice.index,
                                blast'.guide.index)]_vars

\* a buffer was moved from one accelerator to the other by setDevice
C13_Witness ==
    /\ blast.op = "setDevice"
    /\ blast.err = "none"
    /\ Len(blog) = 3
    /\ blog[1] = MemcpyEvent("DeviceToHost", 0)
    /\ blog[3] = MemcpyEvent("HostToDevice", 1)
    /\ buf[blast.b].mDevice = kCUDA(1)
    /\ buf[blast.b].mGpuData \in gpuMem

\* C14: GridHandle::copy(guide) of a source whose region is live returns a
\* buffer on the guide's device with the source's size and contents and
\* leaves the source as it was, in every host/accelerator combination; for
\* an empty source it returns an empty buffer on the guide's device.
C14_CopyIsDeepClone ==
    [][(blast'.op = "copy" /\ (BufIsEmpty(buf[blast'.src])
                               \/ ResidentIsLive(buf[blast'.src], hostMem, gpuMem))) =>
          LET s == blast'.src
              d == blast'.b
          IN /\ blast'.err = "none"
             /\ buf'[d].mDevice = blast'.guide
             /\ buf'[d].mSize = buf[s].mSize
             /\ buf'[s] = buf[s]
             /\ IF BufIsEmpty(buf[s])
                THEN /\ BufIsEmpty(buf'[d])
                     /\ hostMem' = hostMem /\ gpuMem' = gpuMem
                     /\ hostData' = hostData /\ gpuData' = gpuData
                ELSE /\ ~BufIsEmpty(buf'[d])
                     /\ ResidentIsLive(buf'[d], hostMem', gpuMem')
                     /\ ResidentIsLive(buf'[s], hostMem', gpuMem')
                     /\ Content(buf'[d], hostData', gpuData')
                            = Content(buf[s], hostData, gpuData)
                     /\ Content(buf'[s], hostData', gpuData')
                            = Content(buf[s], hostData, gpuData)
                     /\ (IF is_cpu(buf'[d].mDevice)
                         THEN buf'[d].mCpuData ELSE buf'[d].mGpuData)
                        # (IF is_cpu(buf'[d].mDevice)
                           THEN buf[s].mCpuData ELSE buf[s].mGpuData)]_vars

\* a buffer on accelerator 0 holding something other than zeros was copied
\* to accelerator 1
C14_Witness ==
    /\ blast.op = "copy"
    /\ blast.err = "none"
    /\ buf[blast.src].mDevice = kCUDA(0)
    /\ buf[blast.b].mDevice = kCUDA(1)
    /\ buf[blast.src].mGpuData \in gpuMem
    /\ buf[blast.b].mGpuData \in gpuMem
    /\ buf[blast.b].mGpuData # buf[blast.src].mGpuData
    /\ gpuData[buf[blast.b].mGpuData] = 1
    /\ gpuData[buf[blast.src].mGpuData] = 1

\* setDevice to the device the buffer already has changes nothing
SameDeviceIsNoOp ==
    (blast'.op = "setDevice" /\ blast'.toDevice = buf[blast'.b].mDevice) =>
        /\ blast'.err = "none"
        /\ buf' = buf
        /\ hostMem' = hostMem /\ gpuMem' = gpuMem
        /\ hostData' = hostData /\ gpuData' = gpuData
        /\ blog' = <<>>

\* setDevice on an empty buffer recorded the target and did nothing else
OnlyRecordsDevice ==
    /\ blast'.err = "none"
    /\ buf' = [buf EXCEPT ![blast'.b].mDevice = blast'.toDevice]
    /\ buf'[blast'.b].mSize = 0
    /\ BufIsEmpty(buf'[blast'.b])
    /\ hostMem' = hostMem /\ gpuMem' = gpuMem
    /\ hostData' = hostData /\ gpuData' = gpuData
    /\ blog' = <<>>

\* C15 as stated: setDevice(target, blocking) on an empty buffer only records
\* target as the buffer's device, for every target; setDevice to the device
\* the buffer already has changes nothing.
C15_AsStated ==
    [][/\ (blast'.op = "setDevice" /\ BufIsEmpty(buf[blast'.b])) => OnlyRecordsDevice
       /\ SameDeviceIsNoOp]_vars

\* C15 (amended): setDevice(target, blocking) on an empty buffer only
\* records target as the buffer's device, allocating nothing, unless target
\* is an accelerator device with no index: then the call fails and the
\* buffer keeps its device; setDevice to the device the buffer already has
\* changes nothing.
C15_EmptyOnlyRecordsDevice ==
    [][/\ (blast'.op = "setDevice" /\ BufIsEmpty(buf[blast'.b])) =>
             IF is_cuda(blast'.toDevice) /\ ~has_index(blast'.toDevice)
             THEN /\ blast'.err = "Error"
                  /\ buf' = buf
                  /\ hostMem' = hostMem /\ gpuMem' = gpuMem
             ELSE OnlyRecordsDevice
       /\ SameDeviceIsNoOp]_vars

\* an empty host buffer was given accelerator 1 as its device
C15_Witness ==
    /\ blast.op = "setDevice"
    /\ blast.err = "none"
    /\ blast.toDevice = kCUDA(1)
    /\ buf[blast.b].mDevice = kCUDA(1)
    /\ BufIsEmpty(buf[blast.b])
    /\ buf[blast.b].mSize = 0
    /\ gpuMem = {}

\* C16: create(size, proto, host) with size > 0 returns a buffer of size
\* bytes on the requested memory space in which every byte is zero.
C16_CreateIsZeroed ==
    (blast.op = "create" /\ blast.err = "none" /\ blast.size > 0) =>
        LET r == buf[blast.b]
        IN /\ r.mSize = blast.size
           /\ is_cpu(r.mDevice) = blast.host
           /\ ResidentIsLive(r, hostMem, gpuMem)
           /\ Content(r, hostData, gpuData) = 0

\* C17 as stated: on an empty batch totalVoxels() is 0 and every per-element
\* query with any index fails with an invalid-argument error.
C17_AsStated ==
    /\ \A x \in live : batchSize(inst[x]) = 0 => totalVoxels(inst[x]) = 0
    /\ (last.op \in QueryFields \cup ElementQueries /\ batchSize(SrcOfLast) = 0)
          => last.err = "Error"

\* C17 (amended): on an empty batch totalVoxels() is 0 and every per-element
\* query with any index fails without reading an element: bbox with the
\* "Empty grid" error of checkNonEmptyGrid, every other query with the index
\* error of the range check.
C17_EmptyBatchQueriesFail ==
    /\ \A x \in live : batchSize(inst[x]) = 0 => totalVoxels(inst[x]) = 0
    /\ (last.op \in QueryFields \cup ElementQueries /\ batchSize(SrcOfLast) = 0)
          => /\ last.err = (IF last.op = "bbox" THEN "Error" ELSE "IndexError")
             /\ last.val = 0

\* bbox(-1) was asked of an empty batch and failed
C17_Witness ==
    /\ last.op = "bbox"
    /\ last.idx = <<0 - 1>>
    /\ batchSize(SrcOfLast) = 0
    /\ totalVoxels(SrcOfLast) = 0
    /\ last.err = "Error"

\* C18: hostAccessor() and deviceAccessor() fail on an empty batch;
\* deviceAccessor() on a batch whose storage is in host memory fails with the
\* error of its device check; and an accessor either of them returns has a
\* grid pointer that is not null.
C18_AccessorsValidate ==
    last.op \in {"hostAccessor", "deviceAccessor"} =>
        /\ isEmpty(SrcOfLast) =>
              /\ last.err = "Error"
              /\ last.val = "Cannot access empty grid"
        /\ (last.op = "deviceAccessor" /\ ~isEmpty(SrcOfLast)
               /\ device(SrcOfLast) # "cuda") =>
              /\ last.err = "Error"
              /\ last.val = "Cannot access device accessor on non-CUDA device"
        /\ (last.op = "deviceAccessor" /\ device(SrcOfLast) # "cuda") =>
              last.err = "Error"
        /\ last.err = "none" => (acc.valid /\ acc.mGridPtr # 0
                                  /\ acc.mGridPtr = SrcOfLast.mGridHdl)
        /\ last.err # "none" => acc = NoAccessor

\* deviceAccessor() was refused on a non-empty batch in host memory
C18_Witness ==
    /\ last.op = "deviceAccessor"
    /\ batchSize(SrcOfLast) > 0
    /\ ~isEmpty(SrcOfLast)
    /\ device(SrcOfLast) = "cpu"
    /\ last.err = "Error"
    /\ acc = NoAccessor

\* the number of elements the index of an Accessor method ranges over
AccessorCount(method) ==
    IF method = "leafBatchIndex" THEN Len(acc.mLeafBatchIndices) ELSE acc.mGridCount

\* C19: every index argument of every Accessor method is resolved as the
\* engine resolves it: an index i in [-count, count) reads element i, or
\* count + i when i is negative, and any other index is rejected and reads
\* nothing.
C19_AccessorIndexChecked ==
    last.op \in AccessorMethods \cup {"leafBatchIndex"} =>
        LET n == AccessorCount(last.op)
            bi == last.idx[1]
        IN IF InRange(n, bi)
           THEN /\ last.err = "none"
                /\ last.val =
                      IF last.op = "leafBatchIndex"
                      THEN acc.mLeafBatchIndices[Resolved(n, bi) + 1]
                      ELSE accessorField(acc.mMetadata[Resolved(n, bi) + 1], last.op)
           ELSE last.err \in {"IndexError", "AssertionFailed"}

AllPositive(f) == \A k \in Axes : f[k] > 0

\* C20 as stated: for every non-negative factor per axis, coarsening a voxel
\* size and origin and subdividing the result by the same factor succeeds
\* and gives the original voxel size and origin.
C20_AsStated ==
    /\ xf.err = "none"
    /\ xf.step = "fine" =>
          (xf.fine.w = xf.voxelSize /\ xf.fine.tx = xf.voxelOrigin)

\* C20 (amended): for every factor that is positive on each axis,
\* coarseVoxSizeAndOrigin followed by fineVoxSizeAndOrigin with the same
\* factor gives the original voxel size and origin; a factor that is zero
\* on some axis is refused.
C20_CoarseThenFineIsIdentity ==
    xf.step \in {"coarse", "fine", "failed"} =>
        IF AllPositive(xf.factor)
        THEN /\ xf.err = "none"
             /\ xf.step # "failed"
             /\ xf.step = "fine" =>
                   (xf.fine.w = xf.voxelSize /\ xf.fine.tx = xf.voxelOrigin)
        ELSE /\ xf.step = "failed"
             /\ xf.err = "Error"
             /\ xf.coarse = NoSizeAndOrigin

\* a grid with voxel size 3/2 and origin -1/2 was coarsened by (2, 3, 1) to
\* another size and origin and subdivided back to its own
C20_Witness ==
    /\ xf.step = "fine"
    /\ xf.factor = <<2, 3, 1>>
    /\ xf.voxelSize = <<<<3, 2>>, <<3, 2>>, <<1, 1>>>>
    /\ xf.voxelOrigin[1] = <<0 - 1, 2>>
    /\ xf.coarse.w = <<<<3, 1>>, <<9, 2>>, <<1, 1>>>>
    /\ xf.coarse.tx[1] = <<1, 4>>
    /\ xf.fine.w = xf.voxelSize
    /\ xf.fine.tx = xf.voxelOrigin

\* (f - 1)/2 times the length unit, as a fraction
HalfVoxels(f, unit) == FracMul(Frac(f - 1, 2), unit)

\* a voxel size and origin was coarsened
Coarsened == xf.step \in {"coarse", "fine"}

\* C21 as stated: coarsening by factor f gives voxel size f times the
\* original and an origin equal to the original origin plus (f - 1)/2 times
\* the coarse voxel size, per axis.
C21_AsStated ==
    Coarsened =>
        \A k \in Axes :
            /\ xf.coarse.w[k] = FracMul(asDouble(xf.factor[k]), xf.voxelSize[k])
            /\ xf.coarse.tx[k] =
                  FracAdd(xf.voxelOrigin[k], HalfVoxels(xf.factor[k], xf.coarse.w[k]))

\* C21 (amended): coarsening by factor f gives voxel size f times the
\* original and an origin equal to the original origin plus (f - 1)/2 times
\* the original (fine) voxel size, per axis.
C21_CoarseSizeAndOrigin ==
    Coarsened =>
        \A k \in Axes :
            /\ xf.coarse.w[k] = FracMul(asDouble(xf.factor[k]), xf.voxelSize[k])
            /\ xf.coarse.tx[k] =
                  FracAdd(xf.voxelOrigin[k], HalfVoxels(xf.factor[k], xf.voxelSize[k]))

\* a grid with voxel size 3/2 and origin 0 on the first axis was coarsened
\* by 3 there: the coarse voxel is 9/2 long and the origin moved by 3/2
C21_Witness ==
    /\ xf.step = "coarse"
    /\ xf.factor[1] = 3
    /\ xf.voxelSize[1] = <<3, 2>>
    /\ xf.voxelOrigin[1] = <<0, 1>>
    /\ xf.coarse.w[1] = <<9, 2>>
    /\ xf.coarse.tx[1] = <<3, 2>>

(***************************************************************************)
(* GridBatch construction paths                                            *)
(***************************************************************************)
\* the last step was a call of a construction path
SetFromCalled == last.op \in SetFromPaths

\* C22: if any validation of a construction path fails, the GridBatch still
\* refers to the same engine instance, which is untouched: the instance is
\* replaced only by a call every check of which passed, and then by a fully
\* built instance of the requested number of grids.
C22_FailureKeepsInstance ==
    [][/\ (last'.op \in SetFromPaths /\ last'.err # "none") =>
              UNCHANGED <<gb, live, inst, hdl>>
       /\ (last'.op \in SetFromPaths /\ gb'.mImpl # gb.mImpl) =>
              /\ last'.err = "none"
              /\ gb'.mImpl \in live'
              /\ batchSize(inst'[gb'.mImpl]) = last'.args.count
              /\ hdl'[inst'[gb'.mImpl].mGridHdl].state = "live"]_vars

\* a GridBatch that holds a built batch of MaxGrids grids was asked to build
\* another one and the builder threw: it still holds the batch it had
C22_Witness ==
    /\ SetFromCalled
    /\ last.err # "none"
    /\ last.built
    /\ gb.mImpl \in live
    /\ batchSize(inst[gb.mImpl]) = MaxGrids

\* an input tensor of the last call is on another device than the batch
InputOnOtherDevice ==
    \/ last.op # "set_from_dense_grid" /\ last.args.tensor.device # last.on
    \/ last.op = "set_from_mesh" /\ last.args.faces.device # last.on
    \/ last.op = "set_from_dense_grid" /\ last.args.mask.has_value
                                       /\ last.args.mask.device # last.on

\* C23: every construction path rejects, before building anything, an input
\* tensor (for the dense path: the mask) that is on another device than the
\* batch.
C23_RejectsOtherDevice ==
    (SetFromCalled /\ InputOnOtherDevice) => (last.err # "none" /\ ~last.built)

\* C24: a construction path asked for more than MAX_GRIDS_PER_BATCH grids
\* fails and leaves the instance in place, and one asked for at most that
\* many never fails the check of the limit.
C24_BatchLimit ==
    [][last'.op \in SetFromPaths =>
          /\ last'.args.count > MAX_GRIDS_PER_BATCH =>
                 (last'.err # "none" /\ UNCHANGED <<gb, live, inst, hdl>>)
          /\ last'.args.count <= MAX_GRIDS_PER_BATCH =>
                 last'.val # "MAX_GRIDS_PER_BATCH"]_vars

\* a call for exactly MAX_GRIDS_PER_BATCH grids built them, and the next
\* call, for one more, failed the check of the limit
C24_Witness ==
    /\ SetFromCalled
    /\ last.args.count = MAX_GRIDS_PER_BATCH + 1
    /\ last.val = "MAX_GRIDS_PER_BATCH"
    /\ gb.mImpl \in live
    /\ batchSize(inst[gb.mImpl]) = MAX_GRIDS_PER_BATCH

(***************************************************************************)
(* Further properties of index                                             *)
(***************************************************************************)
\* index returned an instance for a list of at least one entry
ViewReturned == IndexReturned /\ Len(last.idx) > 0

\* the element of the source that entry i (from 1) of the last list selects
Selected(i) ==
    SrcOfLast.mHostGridMetadata[Resolved(batchSize(SrcOfLast), last.idx[i]) + 1]

\* C25: in every batch index produces for a non-empty selection, the
\* per-leaf batch-index array has totalLeaves() entries, the entries at
\* positions cumLeaves(i) .. cumLeaves(i) + numLeaves(i) - 1 equal i, the
\* position of the element in the new batch, and the array is non-decreasing.
C25_LeafBatchIndices ==
    ViewReturned =>
        LET r == ResOfLast
            a == r.mLeafBatchIndices
        IN /\ Len(a) = totalLeaves(r)
           /\ \A i \in 0..(batchSize(r) - 1) :
                 \A k \in cumLeaves(r, i)..(cumLeaves(r, i) + numLeaves(r, i) - 1) :
                     a[k + 1] = i
           /\ \A k \in 1..(Len(a) - 1) : a[k] <= a[k + 1]

\* the second and then the first element of a batch were selected, both with
\* leaves: the leaves of the source's second element are numbered 0
C25_Witness ==
    /\ ViewReturned
    /\ last.idx = <<1, 0>>
    /\ numLeaves(SrcOfLast, 0) > 0
    /\ numLeaves(SrcOfLast, 1) > 0
    /\ ResOfLast.mLeafBatchIndices[1] = 0
    /\ ResOfLast.mLeafBatchIndices[totalLeaves(ResOfLast)] = 1

\* the hull, largest voxel count and largest leaf count of the first n
\* selected elements
RECURSIVE HullSelected(_)
HullSelected(n) ==
    IF n = 0 THEN EmptyBBox ELSE expand(HullSelected(n - 1), Selected(n).mBBox)

RECURSIVE MaxSelected(_, _)
MaxSelected(n, fld) ==
    IF n = 0 THEN 0 ELSE Max(MaxSelected(n - 1, fld), Selected(n)[fld])

\* C26: the batch index produces for a non-empty selection has as totalBBox()
\* the union of the bounding boxes of the selected elements, and as
\* maxVoxelsPerGrid() and maxLeavesPerGrid() the largest voxel count and
\* leaf count among them.
C26_ExtentOfSelection ==
    ViewReturned =>
        /\ ResOfLast.mBatchMetadata.mTotalBBox = HullSelected(Len(last.idx))
        /\ ResOfLast.mBatchMetadata.mMaxVoxels = MaxSelected(Len(last.idx), "mNumVoxels")
        /\ ResOfLast.mBatchMetadata.mMaxLeafCount = MaxSelected(Len(last.idx), "mNumLeaves")

\* the larger and then the smaller of two grids with boxes was selected: the
\* result has the extent of both, which is not the one of its last element
C26_Witness ==
    /\ ViewReturned
    /\ Len(last.idx) = 2
    /\ Selected(1).mNumVoxels > Selected(2).mNumVoxels
    /\ Selected(2).mNumLeaves > Selected(1).mNumLeaves
    /\ ResOfLast.mBatchMetadata.mMaxVoxels = Selected(1).mNumVoxels
    /\ ResOfLast.mBatchMetadata.mMaxLeafCount = Selected(2).mNumLeaves
    /\ ResOfLast.mBatchMetadata.mTotalBBox # Selected(2).mBBox
    /\ ResOfLast.mBatchMetadata.mTotalBBox # Selected(1).mBBox

\* the address Accessor::grid(bi) returns for a valid bi: mGridPtr moved by
\* the byte offset of element bi
gridAddress(a, bi) ==
    [base |-> a.mGridPtr, offset |-> accessorMethod(a, "grid", bi, "assert").val]

\* the fields of an element's metadata that index copies as they are
CopiedFields == {"mCumBytes", "mNumBytes", "mNumLeaves", "mNumVoxels",
                 "mVoxelSize", "mBBox"}

\* C29: index changes only the cumulative voxel and leaf counts of the
\* metadata it copies: element i of the result has the byte offset, byte
\* size, leaf count, voxel count, voxel size, primal and dual transform and
\* bounding box of the source's element L[i]; the result is mutable exactly
\* when the source is; and an accessor of the result resolves grid(i) to the
\* address the source's accessor resolves grid(L[i]) to.
C29_IndexCopiesMetadata ==
    ViewReturned =>
        /\ \A i \in 1..Len(last.idx) :
              LET e == ResOfLast.mHostGridMetadata[i]
              IN /\ \A fld \in CopiedFields : e[fld] = Selected(i)[fld]
                 /\ primalTransformOf(e) = primalTransformOf(Selected(i))
                 /\ dualTransformOf(e) = dualTransformOf(Selected(i))
        /\ isMutable(ResOfLast) = isMutable(SrcOfLast)
        /\ hostAccessor(ResOfLast).err = hostAccessor(SrcOfLast).err
        /\ deviceAccessor(ResOfLast).err = deviceAccessor(SrcOfLast).err
        /\ \A i \in 1..Len(last.idx) :
              LET bi == Resolved(batchSize(SrcOfLast), last.idx[i])
              IN /\ hostAccessor(SrcOfLast).err = "none" =>
                        gridAddress(hostAccessor(ResOfLast).ret, i - 1) =
                            gridAddress(hostAccessor(SrcOfLast).ret, bi)
                 /\ deviceAccessor(SrcOfLast).err = "none" =>
                        gridAddress(deviceAccessor(ResOfLast).ret, i - 1) =
                            gridAddress(deviceAccessor(SrcOfLast).ret, bi)

\* the second grid of a mutable batch on the accelerator, of voxel size 2 and
\* lying 2 bytes into the buffer, was selected alone: the result's first grid
\* is at that offset of the same buffer and has voxel size 2
C29_Witness ==
    /\ ViewReturned
    /\ last.idx = <<1>>
    /\ isMutable(ResOfLast)
    /\ ResOfLast.mHostGridMetadata[1].mVoxelSize = 2
    /\ deviceAccessor(ResOfLast).err = "none"
    /\ gridAddress(deviceAccessor(ResOfLast).ret, 0) =
           [base |-> SrcOfLast.mGridHdl, offset |-> 2]
    /\ cumVoxels(ResOfLast, 0) # cumVoxels(SrcOfLast, 1)

(***************************************************************************)
(* cum_enabled_voxels_at                                                   *)
(***************************************************************************)
\* C30: on an immutable batch of n grids cum_enabled_voxels_at(bi) returns
\* cumVoxels(bi) for every bi in [-n, n), a negative bi counted from the end,
\* and fails with an index error for every other bi.
C30_CumEnabledAgreesWithCumVoxels ==
    (last.op = "cum_enabled_voxels_at" /\ ~isMutable(SrcOfLast)) =>
        LET n == batchSize(SrcOfLast)
            bi == last.idx[1]
        IN IF InRange(n, bi)
           THEN last.err = "none" /\ last.val = cumVoxels(SrcOfLast, bi)
           ELSE last.err = "IndexError"

(***************************************************************************)
(* Release of the regions of the device buffer                             *)
(***************************************************************************)
\* C27: over any sequence of buffer operations every host or accelerator
\* region a buffer allocated is released exactly once: no operation releases
\* a region the allocator no longer holds, and no region stays allocated
\* that no buffer points at.
C27_ReleasedExactlyOnce ==
    /\ \A i \in 1..Len(blast.rel) : blast.rel[i].held
    /\ \A p \in hostMem : \E b \in balive : buf[b].mCpuData = p
    /\ \A p \in gpuMem : \E b \in balive : buf[b].mGpuData = p

\* the last call moved a buffer with blocking = false
MigratedWithoutBlocking ==
    blast.op \in {"setDevice", "toCpu", "toCuda"} /\ ~blast.blocking

\* C28: during a migration issued with blocking = false, the region an
\* asynchronous copy reads (the host region on the way to an accelerator, the
\* accelerator region on the way to the host) is not released before a
\* synchronisation of the copy's stream.
C28_SourceOutlivesCopy ==
    MigratedWithoutBlocking =>
        \A i \in 1..Len(blast.rel) : ~blast.rel[i].busy

====
